---- MODULE Spec2Model ----
(***************************************************************************)
(* Verification model of scripts/rhoso_adoc_docs_to_text.py                *)
(*                                                                         *)
(*   Part 1  FileLock and the control flow of fix_adoc_file, run by        *)
(*           several worker processes on one source file (SpecLock,        *)
(*           FairLock).                                                    *)
(*   Part 2  The six rewriting passes on token buffers, the language       *)
(*           detector and the table parser, each as an operator, with      *)
(*           one specification per function that is applied to bounded     *)
(*           inputs (SpecNum, SpecFix, SpecLang, SpecTable).               *)
(***************************************************************************)
EXTENDS Integers, Sequences, FiniteSets, TLC

(***************************************************************************)
(* Bounds                                                                  *)
(***************************************************************************)
\* number of worker processes that call fix_adoc_file on the same file
NumProcs == 2
\* FileLock.timeout, counted in units of FileLock.check_interval
TimeoutTicks == 1

Procs == 1..NumProcs
\* an inode is in use while the sidecar path links it or a process has it open
Inodes == 1..(NumProcs + 1)
\* elapsed times above the timeout are all treated alike
WaitCap == TimeoutTicks + 1

VARIABLES
    pc,         \* lock model: position of each worker inside fix_adoc_file
    fd,         \* lock model: inode behind FileLock.lock_file (0: none open)
    path,       \* lock model: inode linked at FileLock.lock_path (0: absent)
    locked,     \* lock model: flock holder of each inode (0: unlocked)
    waited,     \* lock model: time.time() - start_time of the running acquire
    result,     \* lock model: how the running or last call of fix_adoc_file ends
    arg,        \* function models: the input the function is applied to
    res,        \* function models: the value the function returned
    phase,      \* function models: "input" before the call, "done" after it
    file,             \* fix_adoc_file: the text stored at file_path
    original_content, \* fix_adoc_file: the text that was read
    content,          \* fix_adoc_file: the buffer handed from pass to pass
    pass_fixes,       \* fix_adoc_file: fixes, the list of the pass just applied
    all_fixes,        \* fix_adoc_file: the fix lists collected so far
    applied,          \* fix_adoc_file: number of passes applied
    fixpc,            \* fix_adoc_file: position of the sequential run
    returned          \* fix_adoc_file: the returned list

lockvars == <<pc, fd, path, locked, waited, result>>
funvars == <<arg, res, phase>>
fixvars == <<file, original_content, content, pass_fixes, all_fixes, applied, fixpc, returned>>
vars == <<pc, fd, path, locked, waited, result, arg, res, phase,
          file, original_content, content, pass_fixes, all_fixes, applied, fixpc, returned>>

\* the variables of the other parts stay at rest
FixIdle ==
    /\ file = <<>> /\ original_content = <<>> /\ content = <<>> /\ pass_fixes = <<>>
    /\ all_fixes = <<>> /\ applied = 0 /\ fixpc = "off" /\ returned = <<>>
FunIdle == arg = <<>> /\ res = <<>> /\ phase = "off"
LockIdle ==
    /\ pc = <<>> /\ fd = <<>> /\ path = 0 /\ locked = <<>>
    /\ waited = <<>> /\ result = <<>>

(***************************************************************************)
(* Part 1: FileLock and fix_adoc_file                                      *)
(***************************************************************************)

\* positions at which the worker is inside the `with FileLock(...)` body
InBody == {"read", "passes", "write"}
\* positions between a successful acquire and the LOCK_UN of its release
Holding == InBody \cup {"unlock"}
\* positions inside FileLock.__enter__
Acquiring == {"open", "flock", "sleep"}
\* ways in which a call that got the lock ends: the fix list is returned,
\* [] is returned after a read or a write failure, a pass raised
Released == {"ok", "readfail", "writefail", "raised"}

InodeInUse(i) == path = i \/ \E p \in Procs : fd[p] = i
FreshInode == CHOOSE i \in Inodes : ~InodeInUse(i)

InitLock ==
    /\ pc = [p \in Procs |-> "idle"]
    /\ fd = [p \in Procs |-> 0]
    \* the sidecar may be left over from a worker that died
    /\ path \in {0, 1}
    /\ locked = [i \in Inodes |-> 0]
    /\ waited = [p \in Procs |-> 0]
    /\ result = [p \in Procs |-> "none"]
    /\ FunIdle
    /\ FixIdle

\* fix_adoc_file is called: FileLock.__init__ and start_time = time.time()
Call(p) ==
    /\ pc[p] = "idle"
    /\ pc' = [pc EXCEPT ![p] = "open"]
    /\ waited' = [waited EXCEPT ![p] = 0]
    /\ result' = [result EXCEPT ![p] = "none"]
    /\ UNCHANGED <<fd, path, locked>>

\* self.lock_file = open(self.lock_path, "w"): creates the file when absent;
\* the file object of the previous attempt is dropped and so closed
OpenLockFile(p) ==
    /\ pc[p] = "open"
    /\ IF path = 0
          THEN /\ path' = FreshInode
               /\ fd' = [fd EXCEPT ![p] = FreshInode]
          ELSE /\ path' = path
               /\ fd' = [fd EXCEPT ![p] = path]
    /\ pc' = [pc EXCEPT ![p] = "flock"]
    /\ UNCHANGED <<locked, waited, result>>

\* fcntl.flock(LOCK_EX | LOCK_NB) and the except branch of __enter__
TryLock(p) ==
    /\ pc[p] = "flock"
    /\ IF locked[fd[p]] = 0
          THEN \* lock acquired, __enter__ returns; start_time is not used again
               /\ locked' = [locked EXCEPT ![fd[p]] = p]
               /\ pc' = [pc EXCEPT ![p] = "read"]
               /\ waited' = [waited EXCEPT ![p] = 0]
               /\ UNCHANGED <<fd, result>>
          ELSE IF waited[p] > TimeoutTicks
                  THEN \* close the lock file and raise TimeoutError
                       /\ fd' = [fd EXCEPT ![p] = 0]
                       /\ pc' = [pc EXCEPT ![p] = "idle"]
                       /\ result' = [result EXCEPT ![p] = "timeout"]
                       /\ waited' = [waited EXCEPT ![p] = 0]
                       /\ UNCHANGED locked
                  ELSE /\ pc' = [pc EXCEPT ![p] = "sleep"]
                       /\ UNCHANGED <<fd, locked, result, waited>>
    /\ UNCHANGED path

\* time.sleep(self.check_interval): at least one interval passes
Sleep(p) ==
    /\ pc[p] = "sleep"
    /\ \E d \in 1..2 :
         waited' = [waited EXCEPT ![p] = IF @ + d > WaitCap THEN WaitCap ELSE @ + d]
    /\ pc' = [pc EXCEPT ![p] = "open"]
    /\ UNCHANGED <<fd, path, locked, result>>

\* (mutant) the read failure returns without leaving the with statement
ReadFileNoRelease(p) ==
    /\ pc[p] = "read"
    /\ \/ /\ pc' = [pc EXCEPT ![p] = "passes"]
          /\ UNCHANGED result
       \/ /\ pc' = [pc EXCEPT ![p] = "idle"]
          /\ result' = [result EXCEPT ![p] = "readfail"]
    /\ UNCHANGED <<fd, path, locked, waited>>

\* open(file_path).read(): on an exception fix_adoc_file returns []
ReadFile(p) ==
    /\ pc[p] = "read"
    /\ \/ /\ pc' = [pc EXCEPT ![p] = "passes"]
          /\ UNCHANGED result
       \/ /\ pc' = [pc EXCEPT ![p] = "unlock"]
          /\ result' = [result EXCEPT ![p] = "readfail"]
    /\ UNCHANGED <<fd, path, locked, waited>>

\* the six passes: the buffer is changed, is unchanged, or a pass raises
RunPasses(p) ==
    /\ pc[p] = "passes"
    /\ \/ /\ pc' = [pc EXCEPT ![p] = "write"]
          /\ UNCHANGED result
       \/ /\ pc' = [pc EXCEPT ![p] = "unlock"]
          /\ result' = [result EXCEPT ![p] = "ok"]
       \/ /\ pc' = [pc EXCEPT ![p] = "unlock"]
          /\ result' = [result EXCEPT ![p] = "raised"]
    /\ UNCHANGED <<fd, path, locked, waited>>

\* the write-back: on an exception fix_adoc_file returns []
WriteFile(p) ==
    /\ pc[p] = "write"
    /\ pc' = [pc EXCEPT ![p] = "unlock"]
    /\ \E r \in {"ok", "writefail"} : result' = [result EXCEPT ![p] = r]
    /\ UNCHANGED <<fd, path, locked, waited>>

\* __exit__: fcntl.flock(LOCK_UN)
Unlock(p) ==
    /\ pc[p] = "unlock"
    /\ locked' = [locked EXCEPT ![fd[p]] = 0]
    /\ pc' = [pc EXCEPT ![p] = "close"]
    /\ UNCHANGED <<fd, path, waited, result>>

\* __exit__: self.lock_file.close()
CloseLockFile(p) ==
    /\ pc[p] = "close"
    /\ fd' = [fd EXCEPT ![p] = 0]
    /\ pc' = [pc EXCEPT ![p] = "unlink"]
    /\ UNCHANGED <<path, locked, waited, result>>

\* (mutant) the release leaves the sidecar in place
UnlinkKeepsFile(p) ==
    /\ pc[p] = "unlink"
    /\ pc' = [pc EXCEPT ![p] = "idle"]
    /\ UNCHANGED <<fd, path, locked, waited, result>>

\* __exit__: self.lock_path.unlink(), any exception swallowed; then the call
\* of fix_adoc_file ends the way the body decided
Unlink(p) ==
    /\ pc[p] = "unlink"
    /\ \/ path # 0 /\ path' = 0
       \/ path = 0 /\ path' = path     \* FileNotFoundError, swallowed
    /\ pc' = [pc EXCEPT ![p] = "idle"]
    /\ UNCHANGED <<fd, locked, waited, result>>

NextLock ==
    \E p \in Procs :
      /\ UNCHANGED <<funvars, fixvars>>
      /\
        \/ Call(p)
        \/ OpenLockFile(p)
        \/ TryLock(p)
        \/ Sleep(p)
        \/ ReadFile(p)
        \/ RunPasses(p)
        \/ WriteFile(p)
        \/ Unlock(p)
        \/ CloseLockFile(p)
        \/ Unlink(p)

SpecLock == InitLock /\ [][NextLock]_vars

\* the acquire loop and the release never block, so their steps are taken;
\* the body of the with statement may take arbitrarily long
FairLock ==
    /\ SpecLock
    /\ \A p \in Procs :
         /\ WF_lockvars(OpenLockFile(p))
         /\ WF_lockvars(TryLock(p))
         /\ WF_lockvars(Sleep(p))
         /\ WF_lockvars(Unlock(p))
         /\ WF_lockvars(CloseLockFile(p))
         /\ WF_lockvars(Unlink(p))

HoldsLock(p) == \E i \in Inodes : locked[i] = p

\* C1: at most one worker is between a successful acquire and its release
C1_MutualExclusion ==
    \A p, q \in Procs : (p # q) => ~(pc[p] \in Holding /\ pc[q] \in Holding)

\* C2: every attempt ends in success, timeout or a retry; an attempt made
\* while no other worker holds the advisory lock succeeds, so an uncontended
\* acquire succeeds on its first attempt; the timeout error comes only from a
\* failed attempt with more than `timeout` elapsed; and an acquire that runs
\* while another worker holds the lock for ever ends with the timeout error
C2_AttemptStep ==
    \A p \in Procs :
        (pc[p] = "flock" /\ pc'[p] # "flock") =>
            /\ pc'[p] \in {"read", "sleep", "idle"}
            /\ (\A q \in Procs \ {p} : ~HoldsLock(q)) => pc'[p] = "read"
            /\ (pc'[p] = "read") => (locked'[fd[p]] = p /\ fd'[p] = fd[p])
            /\ (pc'[p] = "idle") =>
                  (result'[p] = "timeout" /\ waited[p] > TimeoutTicks /\ locked[fd[p]] # 0)
C2_TimeoutWhenNeverReleased ==
    \A p, q \in Procs :
        (p # q) =>
            []((pc[p] \in Acquiring /\ [](pc[q] \in Holding))
                 => <>(pc[p] = "idle" /\ result[p] = "timeout"))
C2_AcquireContract == [][C2_AttemptStep]_vars /\ C2_TimeoutWhenNeverReleased
C2_SafetyPart == [][C2_AttemptStep]_vars

\* C3: the release ends the call the way the body decided also when the
\* delete fails, and once every worker that used the lock is done and none
\* is attempting, the sidecar path does not exist
Quiescent ==
    /\ \A p \in Procs : pc[p] = "idle"
    /\ \E p \in Procs : result[p] # "none"
C3_ReleaseStep ==
    \A p \in Procs :
        (pc[p] = "unlink" /\ pc'[p] # "unlink") =>
            (pc'[p] = "idle" /\ result'[p] = result[p] /\ result[p] \in Released /\ path' = 0)
C3_SidecarTransient == [](Quiescent => path = 0) /\ [][C3_ReleaseStep]_vars
C3_Witness ==
    /\ Quiescent
    /\ \E p, q \in Procs : result[p] = "timeout" /\ result[q] \in Released

\* C4: inside the body of the with statement the worker holds the flock of
\* the lock file it opened, and when fix_adoc_file has ended, on any path,
\* it holds no lock and has no lock file open
C4_LockScope ==
    \A p \in Procs :
        /\ (pc[p] \in Holding) => (fd[p] # 0 /\ locked[fd[p]] = p)
        /\ (pc[p] = "idle") => (fd[p] = 0 /\ ~HoldsLock(p))
C4_Witness ==
    \E p, q \in Procs :
        /\ pc[p] = "idle" /\ pc[q] = "idle"
        /\ result[p] = "raised" /\ result[q] \in {"readfail", "writefail"}


(***************************************************************************)
(* Part 2: the text buffer of the AsciiDoc fixer                           *)
(*                                                                         *)
(* A buffer is content.split("\n"): a non-empty sequence of lines.  A line *)
(* is a record that keeps what the passes look at:                         *)
(*   k = "delim"   ----              k = "blank"   (empty line)            *)
(*   k = "text"    plain text        k = "code"    text <m1> <m2> ...      *)
(*   k = "def"     <m1> text         k = "ifeval"  ifeval::[...]           *)
(*   k = "endif"   endif::[]         k = "source"  [source,a] / [source,   *)
(*   k = "subs"    [subs=v]                         a,subs=v] (sub = TRUE) *)
(*   k = "tdelim"  |===              k = "row"     |cell                   *)
(*   k = "bar"     |                 k = "rowbar"  |cell |                 *)
(*   k = "cellbar" cell |            k = "na"      | N/A | N/A             *)
(*   k = "row2"    |cell |cell                                             *)
(*   k = "link"    a line with a link: macro, a = the form of its text     *)
(* m is the list of callout numbers <N> of the line, pre tells whether a   *)
(* "|" was put in front of the line by the table pass.                     *)
(***************************************************************************)
Ln(k, m, a) == [k |-> k, m |-> m, a |-> a, sub |-> FALSE, pre |-> FALSE]
Delim == Ln("delim", <<>>, "")
Blank == Ln("blank", <<>>, "")
Text == Ln("text", <<>>, "")
Code(m) == Ln("code", m, "")
Def(n) == Ln("def", <<n>>, "")

\* line.strip() == "----"
IsDelim(l) == l.k = "delim" /\ ~l.pre
\* line.strip() == ""
IsBlank(l) == l.k = "blank" /\ ~l.pre
\* re.finditer(r"<(\d+)>", line)
Markers(l) == l.m
\* callout_definition_pattern.match(line), pattern ^<(\d+)>\s+
IsDef(l) == l.k = "def" /\ ~l.pre
DefNum(l) == l.m[1]

\* a fix description: what was done and the number the message carries
Fix(f, n) == [f |-> f, at |-> n]

Range(s) == {s[i] : i \in 1..Len(s)}
\* index of x in s, 0 when absent
PosOf(s, x) == IF x \in Range(s) THEN CHOOSE i \in 1..Len(s) : s[i] = x /\ \A j \in 1..(i-1) : s[j] # x ELSE 0

(***************************************************************************)
(* preprocess_adoc_callout_numbering                                       *)
(***************************************************************************)
\* current_block_callouts.append(n) for every marker not seen in the block
RECURSIVE AddNew(_, _)
AddNew(cur, ms) ==
    IF ms = <<>> THEN cur
    ELSE AddNew(IF Head(ms) \in Range(cur) THEN cur ELSE Append(cur, Head(ms)), Tail(ms))

\* first pass: block_callouts, the closed blocks that have callouts
RECURSIVE NumFirstPass(_, _, _)
NumFirstPass(lines, i, st) ==
    IF i > Len(lines) THEN st.blocks
    ELSE LET l == lines[i] IN
         IF IsDelim(l)
            THEN IF ~st.inb
                    THEN NumFirstPass(lines, i + 1,
                            [st EXCEPT !.inb = TRUE, !.cur = <<>>, !.bi = @ + 1])
                    ELSE NumFirstPass(lines, i + 1,
                            [st EXCEPT !.inb = FALSE,
                                       !.blocks = IF st.cur # <<>>
                                                     THEN Append(@, [bi |-> st.bi, nums |-> st.cur])
                                                     ELSE @])
            ELSE IF st.inb
                    THEN NumFirstPass(lines, i + 1, [st EXCEPT !.cur = AddNew(@, Markers(l))])
                    ELSE NumFirstPass(lines, i + 1, st)

BlockCallouts(lines) ==
    NumFirstPass(lines, 1, [inb |-> FALSE, bi |-> 0, cur |-> <<>>, blocks |-> <<>>])

\* (mutant) one map for the whole file, keyed by the original number only
RenumberMapGlobal(blocks, bi, n) ==
    IF \E k \in 1..Len(blocks) : n \in Range(blocks[k].nums)
       THEN LET k == CHOOSE k \in 1..Len(blocks) :
                        /\ n \in Range(blocks[k].nums)
                        /\ \A h \in 1..(k-1) : n \notin Range(blocks[h].nums)
            IN PosOf(blocks[k].nums, n)
       ELSE 0

\* renumber_map[(block_index, original_num)], 0 when the key is absent
RenumberMap(blocks, bi, n) ==
    IF \E k \in 1..Len(blocks) : blocks[k].bi = bi /\ n \in Range(blocks[k].nums)
       THEN LET k == CHOOSE k \in 1..Len(blocks) : blocks[k].bi = bi /\ n \in Range(blocks[k].nums)
            IN PosOf(blocks[k].nums, n)
       ELSE 0

\* len(renumber_map)
RECURSIVE RenumberMapSize(_)
RenumberMapSize(blocks) ==
    IF blocks = <<>> THEN 0 ELSE Len(Head(blocks).nums) + RenumberMapSize(Tail(blocks))

\* the markers of a line inside block bi, renumbered
RenumberMarkers(blocks, bi, ms) ==
    [j \in 1..Len(ms) |->
        IF RenumberMap(blocks, bi, ms[j]) = 0 THEN ms[j] ELSE RenumberMap(blocks, bi, ms[j])]

\* second pass: renumber the markers in the blocks and the definition lines
RECURSIVE NumSecondPass(_, _, _, _)
NumSecondPass(lines, blocks, i, st) ==
    IF i > Len(lines) THEN st.out
    ELSE LET l == lines[i] IN
         IF IsDelim(l)
            THEN NumSecondPass(lines, blocks, i + 1,
                    [st EXCEPT !.inb = ~st.inb,
                               !.bi = IF st.inb THEN @ ELSE @ + 1,
                               !.out = Append(@, l)])
         ELSE IF st.inb
            THEN NumSecondPass(lines, blocks, i + 1,
                    [st EXCEPT !.out = Append(@, [l EXCEPT !.m = RenumberMarkers(blocks, st.bi, l.m)])])
         ELSE IF IsDef(l)
            THEN LET \* move to the next block when the current one is used up
                     pop == st.nums = <<>> /\ st.queue # <<>>
                     s1 == IF pop
                              THEN [st EXCEPT !.blk = Head(st.queue).bi,
                                              !.nums = Head(st.queue).nums,
                                              !.queue = Tail(st.queue),
                                              !.di = 0]
                              ELSE st
                     hit == /\ s1.nums # <<>>
                            /\ s1.di < Len(s1.nums)
                            /\ DefNum(l) = s1.nums[s1.di + 1]
                     done == s1.di + 1 >= Len(s1.nums)
                 IN IF hit
                       THEN NumSecondPass(lines, blocks, i + 1,
                              [s1 EXCEPT !.out = Append(@, [l EXCEPT !.m = <<RenumberMap(blocks, s1.blk, DefNum(l))>>]),
                                         !.di = IF done THEN 0 ELSE @ + 1,
                                         !.nums = IF done THEN <<>> ELSE @,
                                         !.blk = IF done THEN 0 ELSE @])
                       ELSE NumSecondPass(lines, blocks, i + 1, [s1 EXCEPT !.out = Append(@, l)])
         ELSE NumSecondPass(lines, blocks, i + 1, [st EXCEPT !.out = Append(@, l)])

preprocess_adoc_callout_numbering(lines) ==
    LET blocks == BlockCallouts(lines)
        new == NumSecondPass(lines, blocks, 1,
                  [inb |-> FALSE, bi |-> 0, queue |-> blocks, blk |-> 0,
                   nums |-> <<>>, di |-> 0, out |-> <<>>])
    IN IF blocks = <<>>
          THEN [buf |-> lines, fixes |-> <<>>]
          ELSE [buf |-> new,
                fixes |-> IF new # lines THEN <<Fix("Renumbered", RenumberMapSize(blocks))>> ELSE <<>>]


(***************************************************************************)
(* preprocess_adoc_link_brackets                                           *)
(*                                                                         *)
(* Forms of a line with a link macro (l.a):                                *)
(*   "plain"    see link:u[t] x            no bracket on the line          *)
(*   "br"       see link:u[a[b]c] x        brackets in the link text       *)
(*   "wrapped"  see link:u[pass:[a[b]c]] x                                 *)
(*   "plainbr"  see link:u[t] and [x]      bracketed text after the link   *)
(*   "plainbrw" see link:u[pass:[t] and [x]]                               *)
(* link_pattern matches "br" and "plainbr" lines with a text that does not *)
(* start with pass:[, and "wrapped" and "plainbrw" lines with one that     *)
(* does.                                                                   *)
(***************************************************************************)
LinkRewritten(l) ==
    IF l.k = "link" /\ l.a = "br" THEN [l EXCEPT !.a = "wrapped"]
    ELSE IF l.k = "link" /\ l.a = "plainbr" THEN [l EXCEPT !.a = "plainbrw"]
    ELSE l

RECURSIVE LinkFixes(_, _)
LinkFixes(lines, i) ==
    IF i > Len(lines) THEN <<>>
    ELSE (IF LinkRewritten(lines[i]) # lines[i] THEN <<Fix("Wrapped link text", i)>> ELSE <<>>)
         \o LinkFixes(lines, i + 1)

preprocess_adoc_link_brackets(lines) ==
    [buf |-> [i \in 1..Len(lines) |-> LinkRewritten(lines[i])],
     fixes |-> LinkFixes(lines, 1)]

(***************************************************************************)
(* preprocess_adoc_callout_placement                                       *)
(***************************************************************************)
\* line.strip().startswith("ifeval::") and ("endif::")
IsIfeval(l) == l.k = "ifeval" /\ ~l.pre
IsEndif(l) == l.k = "endif" /\ ~l.pre
Endif == Ln("endif", <<>>, "")

RECURSIVE SeqMax(_)
SeqMax(q) == IF Len(q) = 1 THEN q[1]
             ELSE LET r == SeqMax(Tail(q)) IN IF Head(q) > r THEN Head(q) ELSE r

\* first pass: block_info, the closed blocks that have callouts
RECURSIVE PlaceFirstPass(_, _, _)
PlaceFirstPass(lines, i, st) ==
    IF i > Len(lines) THEN st.info
    ELSE LET l == lines[i] IN
         IF IsDelim(l)
            THEN IF ~st.inb
                    THEN PlaceFirstPass(lines, i + 1,
                            [st EXCEPT !.inb = TRUE, !.start = i, !.cur = <<>>])
                    ELSE PlaceFirstPass(lines, i + 1,
                            [st EXCEPT !.inb = FALSE,
                                       !.info = IF st.cur # <<>>
                                                   THEN Append(@, [s |-> st.start, e |-> i, mx |-> SeqMax(st.cur)])
                                                   ELSE @])
            ELSE IF st.inb
                    THEN PlaceFirstPass(lines, i + 1, [st EXCEPT !.cur = @ \o Markers(l)])
                    ELSE PlaceFirstPass(lines, i + 1, st)

BlockInfo(lines) ==
    PlaceFirstPass(lines, 1, [inb |-> FALSE, start |-> 0, cur |-> <<>>, info |-> <<>>])

\* second pass: all_definitions, the indexes of the definition lines
RECURSIVE AllDefinitions(_, _)
AllDefinitions(lines, i) ==
    IF i > Len(lines) THEN <<>>
    ELSE (IF IsDef(lines[i]) THEN <<i>> ELSE <<>>) \o AllDefinitions(lines, i + 1)

\* defs_after_block: the numbers of the definitions found after the block
RECURSIVE DefsAfterBlock(_, _, _, _)
DefsAfterBlock(lines, check, need, acc) ==
    IF check > Len(lines) \/ Len(acc) >= need THEN acc
    ELSE LET l == lines[check] IN
         IF IsDef(l) THEN DefsAfterBlock(lines, check + 1, need, Append(acc, DefNum(l)))
         ELSE IF ~IsBlank(l) /\ ~IsIfeval(l) /\ ~IsEndif(l) THEN acc
         ELSE DefsAfterBlock(lines, check + 1, need, acc)

\* the ifeval line found in the two lines before the first definition, as
\* range(first_def_idx - 1, max(0, first_def_idx - 3), -1) visits them
\* (0: none); the first line of the buffer is never visited
IfevalWrapper(lines, first) ==
    LET ok(j) == j >= 2 /\ j <= Len(lines)
    IN IF ok(first - 1) /\ IsIfeval(lines[first - 1]) THEN first - 1
       ELSE IF ok(first - 1) /\ ~IsBlank(lines[first - 1]) THEN 0
       ELSE IF ok(first - 2) /\ ok(first - 1) /\ IsIfeval(lines[first - 2]) THEN first - 2
       ELSE 0

\* third pass: give every block the next definitions
RECURSIVE PlaceBlocks(_, _, _, _)
PlaceBlocks(lines, defs, info, st) ==
    IF info = <<>> THEN st
    ELSE LET b == Head(info)
             need == b.mx
             found == DefsAfterBlock(lines, b.e + 1, need, <<>>)
             inplace == found = [n \in 1..need |-> n]
             taken == {defs[k] : k \in {k \in 1..Len(defs) : k > st.di /\ k <= st.di + need}}
             takenLines == [k \in 1..Cardinality(taken) |-> lines[defs[st.di + k]]]
             wrap == IfevalWrapper(lines, defs[st.di + 1])
             moved == (IF wrap # 0 THEN <<lines[wrap]>> \o takenLines \o <<Endif>> ELSE takenLines)
                      \o <<Blank>>
         IN IF inplace
               THEN PlaceBlocks(lines, defs, Tail(info), [st EXCEPT !.di = @ + need])
            ELSE IF st.di < Len(defs)
               THEN PlaceBlocks(lines, defs, Tail(info),
                      [st EXCEPT !.di = @ + need,
                                 !.skip = @ \cup taken,
                                 !.ins = Append(@, [at |-> b.e, add |-> moved]),
                                 !.fixes = Append(@, Fix("Moved callout definitions", b.e))])
            ELSE PlaceBlocks(lines, defs, Tail(info), st)

\* the next line at or after j that is not skipped and not blank (0: none)
RECURSIVE NextKept(_, _, _)
NextKept(lines, skip, j) ==
    IF j > Len(lines) THEN 0
    ELSE IF j \notin skip /\ ~IsBlank(lines[j]) THEN j
    ELSE NextKept(lines, skip, j + 1)

\* remove the ifeval/endif pairs that have nothing left between them
RECURSIVE DropEmptyIfeval(_, _, _)
DropEmptyIfeval(lines, skip, i) ==
    IF i > Len(lines) THEN skip
    ELSE IF i \notin skip /\ IsIfeval(lines[i])
            THEN LET j == NextKept(lines, skip, i + 1)
                 IN IF j # 0 /\ IsEndif(lines[j])
                       THEN DropEmptyIfeval(lines, skip \cup {i, j}, i + 1)
                       ELSE DropEmptyIfeval(lines, skip, i + 1)
    ELSE DropEmptyIfeval(lines, skip, i + 1)

RECURSIVE PlaceBuild(_, _, _, _)
PlaceBuild(lines, skip, ins, i) ==
    IF i > Len(lines) THEN <<>>
    ELSE (IF i \in skip THEN <<>>
          ELSE <<lines[i]>> \o
               (IF \E k \in 1..Len(ins) : ins[k].at = i
                   THEN ins[CHOOSE k \in 1..Len(ins) : ins[k].at = i].add
                   ELSE <<>>))
         \o PlaceBuild(lines, skip, ins, i + 1)

preprocess_adoc_callout_placement(lines) ==
    LET info == BlockInfo(lines)
        defs == AllDefinitions(lines, 1)
        st == PlaceBlocks(lines, defs, info, [di |-> 0, skip |-> {}, ins |-> <<>>, fixes |-> <<>>])
        skip == DropEmptyIfeval(lines, st.skip, 1)
    IN IF info = <<>> \/ defs = <<>> THEN [buf |-> lines, fixes |-> <<>>]
       ELSE IF skip = {} /\ st.ins = <<>> THEN [buf |-> lines, fixes |-> <<>>]
       ELSE [buf |-> PlaceBuild(lines, skip, st.ins, 1), fixes |-> st.fixes]

(***************************************************************************)
(* preprocess_adoc_callout_spacing                                         *)
(***************************************************************************)
\* the inner scan: last_def_line of the section that starts at a definition
RECURSIVE SpacingScan(_, _, _)
SpacingScan(lines, j, lastdef) ==
    IF j > Len(lines) THEN lastdef
    ELSE LET cur == lines[j] IN
         IF IsDef(cur) THEN SpacingScan(lines, j + 1, j)
         ELSE IF IsEndif(cur)
            THEN IF j + 1 <= Len(lines) /\ (IsDef(lines[j + 1]) \/ IsIfeval(lines[j + 1]))
                    THEN SpacingScan(lines, j + 1, j)
                    ELSE j
         ELSE IF IsIfeval(cur) THEN SpacingScan(lines, j + 1, lastdef)
         ELSE IF IsBlank(cur) THEN lastdef
         ELSE j - 1

RECURSIVE SpacingLoop(_, _, _)
SpacingLoop(lines, i, st) ==
    IF i > Len(lines) THEN st
    ELSE IF IsDef(lines[i])
            THEN LET lastdef == SpacingScan(lines, i + 1, i)
                     add == lastdef + 1 <= Len(lines) /\ ~IsBlank(lines[lastdef + 1])
                 IN SpacingLoop(lines, lastdef + 1,
                        [buf |-> st.buf \o SubSeq(lines, i, lastdef)
                                        \o (IF add THEN <<Blank>> ELSE <<>>),
                         fixes |-> st.fixes \o (IF add THEN <<Fix("Added blank line", lastdef)>> ELSE <<>>)])
    ELSE SpacingLoop(lines, i + 1, [st EXCEPT !.buf = Append(@, lines[i])])

preprocess_adoc_callout_spacing(lines) ==
    SpacingLoop(lines, 1, [buf |-> <<>>, fixes |-> <<>>])

(***************************************************************************)
(* detect_block_language                                                   *)
(*                                                                         *)
(* A code line carries in l.a the kind of text it holds:                   *)
(*   ""     x              "kv"   key: value       "kind" kind: Pod        *)
(*   "sh"   $ ls           "cmd"  sudo ls          "sec"  [DEFAULT]        *)
(*   "eq"   key=value      "imp"  import os        "fn"   def f():         *)
(*   "xml"  <a>b</a>       "js"   {"k": 1}                                 *)
(* An indicator is <<family, position in the family's list>>.              *)
(***************************************************************************)
Families == <<"yaml", "bash", "ini", "python", "xml", "json">>

\* the indicators re.search finds in one line
LineHits(l) ==
    IF l.k = "code"
       THEN IF l.pre
               THEN CASE l.a = "js" -> {<<"json", 2>>}
                      [] l.a = "kind" -> {<<"yaml", 5>>}
                      [] OTHER -> {}
               ELSE CASE l.a = "kv" -> {<<"yaml", 2>>}
                      [] l.a = "kind" -> {<<"yaml", 2>>, <<"yaml", 5>>}
                      [] l.a = "sh" -> {<<"bash", 2>>}
                      [] l.a = "cmd" -> {<<"bash", 3>>}
                      [] l.a = "sec" -> {<<"ini", 1>>, <<"json", 1>>}
                      [] l.a = "eq" -> {<<"ini", 2>>}
                      [] l.a = "imp" -> {<<"python", 1>>}
                      [] l.a = "fn" -> {<<"python", 3>>}
                      [] l.a = "xml" -> {<<"xml", 2>>}
                      [] l.a = "js" -> {<<"json", 1>>, <<"json", 2>>}
                      [] OTHER -> {}
    ELSE IF l.k \in {"source", "subs"} /\ ~l.pre THEN {<<"json", 1>>}
    ELSE {}

BlockHits(block_lines) == UNION {LineHits(block_lines[i]) : i \in 1..Len(block_lines)}

\* scores: per family the number of its indicators found in the block
Scores(block_lines) ==
    [f \in Range(Families) |-> Cardinality({h \in BlockHits(block_lines) : h[1] = f})]

\* (mutant) a top score shared by several families gives the default
DetectedOrYamlOnTie(scores) ==
    LET top == CHOOSE v \in {scores[f] : f \in DOMAIN scores} :
                   \A f \in DOMAIN scores : scores[f] <= v
    IN IF top > 0 /\ Cardinality({f \in DOMAIN scores : scores[f] = top}) = 1
          THEN CHOOSE f \in DOMAIN scores : scores[f] = top
          ELSE "yaml"

\* max(scores.items(), key=...) gives the first family, in the order the
\* dict was built, that has the highest score; "yaml" when all are zero
Detected(scores) ==
    LET top == CHOOSE v \in {scores[f] : f \in DOMAIN scores} :
                   \A f \in DOMAIN scores : scores[f] <= v
        first == CHOOSE k \in 1..Len(Families) :
                   /\ scores[Families[k]] = top
                   /\ \A h \in 1..(k-1) : scores[Families[h]] # top
    IN IF top > 0 THEN Families[first] ELSE "yaml"

detect_block_language(block_lines) == Detected(Scores(block_lines))

(***************************************************************************)
(* preprocess_adoc_callouts                                                *)
(***************************************************************************)
\* prev_line.startswith("[source") or ("[listing")
IsSourceLine(l) == l.k = "source" /\ ~l.pre
\* prev_line.startswith("[subs=") and the regex finds the value
IsSubsLine(l) == l.k = "subs" /\ ~l.pre

\* index of the last non-empty line of new_lines (0: none)
RECURSIVE PrevNonEmpty(_, _)
PrevNonEmpty(new, i) ==
    IF i < 1 THEN 0 ELSE IF ~IsBlank(new[i]) THEN i ELSE PrevNonEmpty(new, i - 1)

\* block_lines: the lines from j up to the next ---- or the end
RECURSIVE BlockLines(_, _)
BlockLines(lines, j) ==
    IF j > Len(lines) \/ IsDelim(lines[j]) THEN <<>>
    ELSE <<lines[j]>> \o BlockLines(lines, j + 1)

\* (mutant) every block is taken to hold a callout
HasCalloutsAlways(block_lines) == TRUE

HasCallouts(block_lines) == \E i \in 1..Len(block_lines) : Markers(block_lines[i]) # <<>>

RECURSIVE CalloutsLoop(_, _, _)
CalloutsLoop(lines, i, st) ==
    IF i > Len(lines) THEN st
    ELSE LET l == lines[i] IN
         IF IsDelim(l) /\ ~st.inb
            THEN LET p == PrevNonEmpty(st.buf, Len(st.buf))
                     has_source == p # 0 /\ IsSourceLine(st.buf[p])
                     has_subs == p # 0 /\ IsSubsLine(st.buf[p])
                     block_lines == BlockLines(lines, i + 1)
                     language == detect_block_language(block_lines)
                 IN IF ~has_source /\ HasCallouts(block_lines)
                       THEN IF has_subs
                               THEN CalloutsLoop(lines, i + 1,
                                      [inb |-> TRUE,
                                       buf |-> Append([st.buf EXCEPT ![p] =
                                                  [k |-> "source", m |-> <<>>, a |-> language,
                                                   sub |-> TRUE, pre |-> FALSE]], l),
                                       fixes |-> Append(st.fixes, Fix("Added source to subs", i))])
                               ELSE CalloutsLoop(lines, i + 1,
                                      [inb |-> TRUE,
                                       buf |-> st.buf \o <<Ln("source", <<>>, language), l>>,
                                       fixes |-> Append(st.fixes, Fix("Added source", i))])
                       ELSE CalloutsLoop(lines, i + 1,
                              [st EXCEPT !.inb = TRUE, !.buf = Append(@, l)])
         ELSE IF IsDelim(l)
            THEN CalloutsLoop(lines, i + 1, [st EXCEPT !.inb = FALSE, !.buf = Append(@, l)])
         ELSE CalloutsLoop(lines, i + 1, [st EXCEPT !.buf = Append(@, l)])

preprocess_adoc_callouts(lines) ==
    LET st == CalloutsLoop(lines, 1, [inb |-> FALSE, buf |-> <<>>, fixes |-> <<>>])
    IN [buf |-> st.buf, fixes |-> st.fixes]

(***************************************************************************)
(* preprocess_adoc_tables                                                  *)
(***************************************************************************)
TDelim == Ln("tdelim", <<>>, "")
Placeholder == Ln("na", <<>>, "")
\* line.startswith("|===")
IsTableDelim(l) == l.k = "tdelim"
\* line.strip() == "|"
IsBar(l) == l.k = "bar"
\* line.strip().startswith("|")
StartsWithPipe(l) == l.pre \/ l.k \in {"tdelim", "row", "row2", "bar", "rowbar", "na"}
\* line.rstrip().endswith("|")
EndsWithPipe(l) == l.k \in {"bar", "rowbar", "cellbar"}

\* drop the "|" and the empty lines that stand right before the closing |===
RECURSIVE StripBeforeClose(_, _, _)
StripBeforeClose(t, fixes, start) ==
    IF Len(t) > 3 /\ (IsBar(t[Len(t) - 1]) \/ IsBlank(t[Len(t) - 1]))
       THEN StripBeforeClose(SubSeq(t, 1, Len(t) - 2) \o <<t[Len(t)]>>,
                             IF IsBar(t[Len(t) - 1])
                                THEN Append(fixes, Fix("Removed incomplete table row", start + Len(t) - 1))
                                ELSE fixes,
                             start)
       ELSE [t |-> t, fixes |-> fixes]

\* a row start that lost its leading | : after a blank line that follows a
\* line ending with |
RowStartLost(t, j) ==
    /\ j >= 3 /\ j <= Len(t) - 1
    /\ IsBlank(t[j - 1])
    /\ ~IsBlank(t[j])
    /\ ~StartsWithPipe(t[j])
    /\ EndsWithPipe(t[j - 2])

RECURSIVE RowStartFixes(_, _, _)
RowStartFixes(t, j, start) ==
    IF j > Len(t) THEN <<>>
    ELSE (IF RowStartLost(t, j) THEN <<Fix("Added leading |", start + j)>> ELSE <<>>)
         \o RowStartFixes(t, j + 1, start)

\* the work done when the closing |=== of a table is read
CloseTable(table_lines, start) ==
    LET s1 == StripBeforeClose(table_lines, <<>>, start)
        t2 == [j \in 1..Len(s1.t) |->
                 IF RowStartLost(s1.t, j) THEN [s1.t[j] EXCEPT !.pre = TRUE] ELSE s1.t[j]]
        f2 == RowStartFixes(s1.t, 1, start)
        empty == \A j \in 2..(Len(t2) - 1) : IsBlank(t2[j]) \/ IsTableDelim(t2[j])
    IN IF empty
          THEN [t |-> SubSeq(t2, 1, Len(t2) - 1) \o <<Placeholder, t2[Len(t2)]>>,
                fixes |-> s1.fixes \o f2 \o <<Fix("Added placeholder row", start)>>]
          ELSE [t |-> t2, fixes |-> s1.fixes \o f2]

RECURSIVE TablesLoop(_, _, _)
TablesLoop(lines, i, st) ==
    IF i > Len(lines) THEN st
    ELSE LET l == lines[i] IN
         IF IsTableDelim(l) /\ ~st.intab
            THEN TablesLoop(lines, i + 1,
                    [st EXCEPT !.intab = TRUE, !.start = Len(st.buf), !.tab = <<l>>])
         ELSE IF IsTableDelim(l)
            THEN LET c == CloseTable(Append(st.tab, l), st.start)
                 IN TablesLoop(lines, i + 1,
                       [st EXCEPT !.intab = FALSE, !.tab = <<>>,
                                  !.buf = @ \o c.t, !.fixes = @ \o c.fixes])
         ELSE IF st.intab
            THEN TablesLoop(lines, i + 1, [st EXCEPT !.tab = Append(@, l)])
         ELSE TablesLoop(lines, i + 1, [st EXCEPT !.buf = Append(@, l)])

\* (mutant) the table pass does not add the final newline
WithFinalNewlineNever(new) == new

\* result += "\n" unless the result is empty or ends with a newline
WithFinalNewline(new) ==
    IF new[Len(new)] = Blank THEN new ELSE Append(new, Blank)

\* (mutant) a table that is open at the end of the input is left open
preprocess_adoc_tables_leaves_open(lines) ==
    LET st == TablesLoop(lines, 1,
                 [intab |-> FALSE, start |-> 0, tab |-> <<>>, buf |-> <<>>, fixes |-> <<>>])
    IN [buf |-> WithFinalNewline(st.buf \o st.tab), fixes |-> st.fixes]

preprocess_adoc_tables(lines) ==
    LET st == TablesLoop(lines, 1,
                 [intab |-> FALSE, start |-> 0, tab |-> <<>>, buf |-> <<>>, fixes |-> <<>>])
        new == IF st.intab
                  THEN st.buf \o st.tab \o <<TDelim>>
                  ELSE st.buf
        fixes == IF st.intab
                    THEN Append(st.fixes, Fix("Closed unclosed table", st.start))
                    ELSE st.fixes
    IN [buf |-> WithFinalNewline(new), fixes |-> fixes]

(***************************************************************************)
(* SpecNum: preprocess_adoc_callout_numbering applied to bounded buffers   *)
(***************************************************************************)
\* longest buffer, in lines, the numbering pass is applied to
MaxNumLines == 6

NumLineSet == {Delim, Text, Code(<<3, 1>>), Code(<<1>>), Def(1), Def(3)}
NumBuffers == UNION {[1..n -> NumLineSet] : n \in 1..MaxNumLines}

InitNum ==
    /\ arg \in NumBuffers
    /\ res = <<>>
    /\ phase = "input"
    /\ LockIdle
    /\ FixIdle

ApplyNumbering ==
    /\ phase = "input"
    /\ res' = preprocess_adoc_callout_numbering(arg)
    /\ phase' = "done"
    /\ UNCHANGED <<arg, lockvars, fixvars>>

NextNum == ApplyNumbering

SpecNum == InitNum /\ [][NextNum]_vars

\* number of ---- lines before line i
RECURSIVE DelimsBefore(_, _)
DelimsBefore(b, i) ==
    IF i <= 1 THEN 0
    ELSE DelimsBefore(b, i - 1) + (IF IsDelim(b[i - 1]) THEN 1 ELSE 0)
\* the ---- lines pair up into blocks
DelimsPaired(b) == DelimsBefore(b, Len(b) + 1) % 2 = 0
\* line i lies inside a block: block number, 0 for a line outside the blocks
BlockAt(b, i) ==
    IF ~IsDelim(b[i]) /\ DelimsBefore(b, i) % 2 = 1 THEN (DelimsBefore(b, i) + 1) \div 2 ELSE 0
NumBlocks(b) == DelimsBefore(b, Len(b) + 1) \div 2
\* the block a line outside the blocks comes after, 0 before the first block
BlockBefore(b, i) == DelimsBefore(b, i) \div 2
\* the callout numbers of block k in reading order
RECURSIVE BlockMarkers(_, _, _)
BlockMarkers(b, k, i) ==
    IF i > Len(b) THEN <<>>
    ELSE (IF BlockAt(b, i) = k THEN b[i].m ELSE <<>>) \o BlockMarkers(b, k, i + 1)
\* in a list numbered 1, 2, ... by first appearance every entry was seen
\* before or is one more than the number of distinct entries before it
FirstAppearanceOrder(f) ==
    \A t \in 1..Len(f) :
        \/ \E u \in 1..(t-1) : f[u] = f[t]
        \/ f[t] = Cardinality({f[u] : u \in 1..(t-1)}) + 1

\* C7: with paired delimiters the callouts of every block are numbered
\* 1..n by first appearance, equal numbers of a block stay equal, and
\* outside the blocks only definition lines change
C7_BlockRenumbering ==
    (phase = "done" /\ DelimsPaired(arg)) =>
        LET out == res.buf IN
        /\ Len(out) = Len(arg)
        /\ \A i \in 1..Len(arg) :
             /\ Len(out[i].m) = Len(arg[i].m)
             /\ out[i] = [arg[i] EXCEPT !.m = out[i].m]
             /\ (BlockAt(arg, i) = 0 /\ ~IsDef(arg[i])) => out[i] = arg[i]
        /\ \A k \in 1..NumBlocks(arg) :
             /\ FirstAppearanceOrder(BlockMarkers(out, k, 1))
             /\ LET old == BlockMarkers(arg, k, 1)
                    new == BlockMarkers(out, k, 1)
                IN \A t, u \in 1..Len(old) : (old[t] = old[u]) <=> (new[t] = new[u])
C7_Witness ==
    /\ phase = "done"
    /\ arg = <<Delim, Code(<<3, 1>>), Delim, Delim, Code(<<1>>), Delim>>
    /\ res.buf = <<Delim, Code(<<1, 2>>), Delim, Delim, Code(<<1>>), Delim>>

\* the definition lines that follow block k before the next block
DefsAfter(b, k) ==
    {i \in 1..Len(b) : BlockAt(b, i) = 0 /\ IsDef(b[i]) /\ BlockBefore(b, i) = k}
\* every block with callouts is followed by exactly one definition per
\* distinct callout number, and there is no other definition line
OneDefinitionPerCallout(b) ==
    /\ DelimsPaired(b)
    /\ DefsAfter(b, 0) = {}
    /\ \A k \in 1..NumBlocks(b) :
         /\ {DefNum(b[i]) : i \in DefsAfter(b, k)} = Range(BlockMarkers(b, k, 1))
         /\ \A i, j \in DefsAfter(b, k) : (DefNum(b[i]) = DefNum(b[j])) => i = j

\* C8: when every block is followed by one definition per callout number,
\* in any order, each definition gets the new number of its marker
C8_DefinitionsFollowMarkers ==
    (phase = "done" /\ OneDefinitionPerCallout(arg)) =>
        LET out == res.buf IN
        \A k \in 1..NumBlocks(arg) :
            LET old == BlockMarkers(arg, k, 1)
                new == BlockMarkers(out, k, 1)
            IN \A i \in DefsAfter(arg, k) :
                 \A t \in 1..Len(old) :
                    (old[t] = DefNum(arg[i])) => (IsDef(out[i]) /\ DefNum(out[i]) = new[t])

(***************************************************************************)
(* SpecFix: the sequential run of fix_adoc_file on bounded files           *)
(***************************************************************************)
\* longest file, in lines, fix_adoc_file is run on
MaxFixLines == 5

FixLineSet == {Delim, Blank, Code(<<2>>), Def(2), TDelim, Ln("link", <<>>, "br")}
FixFiles == UNION {[1..n -> FixLineSet] : n \in 1..MaxFixLines}

\* (mutant) spacing is called before the source designation
PassOrderSpacingFirst ==
    <<"link_brackets", "callout_numbering", "callout_placement",
      "callout_spacing", "callouts", "tables">>

\* the passes in the order fix_adoc_file calls them
PassOrder ==
    <<"link_brackets", "callout_numbering", "callout_placement",
      "callouts", "callout_spacing", "tables">>

ApplyPass(name, buf) ==
    CASE name = "link_brackets" -> preprocess_adoc_link_brackets(buf)
      [] name = "callout_numbering" -> preprocess_adoc_callout_numbering(buf)
      [] name = "callout_placement" -> preprocess_adoc_callout_placement(buf)
      [] name = "callouts" -> preprocess_adoc_callouts(buf)
      [] name = "callout_spacing" -> preprocess_adoc_callout_spacing(buf)
      [] name = "tables" -> preprocess_adoc_tables(buf)

\* positions at which fix_adoc_file has returned after running the passes
AfterPasses == {"wrote", "write_failed", "skipped_write"}

InitFix ==
    /\ file \in FixFiles
    /\ original_content = <<>> /\ content = <<>>
    /\ pass_fixes = <<>> /\ all_fixes = <<>>
    /\ applied = 0
    /\ fixpc = "read"
    /\ returned = <<>>
    /\ LockIdle
    /\ FunIdle

\* original_content = f.read(); content = original_content; all_fixes = []
FixRead ==
    /\ fixpc = "read"
    /\ original_content' = file
    /\ content' = file
    /\ all_fixes' = <<>>
    /\ fixpc' = "passes"
    /\ UNCHANGED <<file, pass_fixes, applied, returned>>

\* the read raises: return []
FixReadFails ==
    /\ fixpc = "read"
    /\ fixpc' = "read_failed"
    /\ returned' = <<>>
    /\ UNCHANGED <<file, original_content, content, pass_fixes, all_fixes, applied>>

\* content, fixes = preprocess_...(content, file_path); all_fixes.extend(fixes)
FixPass ==
    /\ fixpc = "passes"
    /\ applied < Len(PassOrder)
    /\ LET r == ApplyPass(PassOrder[applied + 1], content) IN
         /\ content' = r.buf
         /\ pass_fixes' = r.fixes
         /\ all_fixes' = all_fixes \o r.fixes
    /\ applied' = applied + 1
    /\ UNCHANGED <<file, original_content, fixpc, returned>>

\* content != original_content and the write succeeds: return all_fixes
FixWrite ==
    /\ fixpc = "passes"
    /\ applied = Len(PassOrder)
    /\ content # original_content
    /\ file' = content
    /\ fixpc' = "wrote"
    /\ returned' = all_fixes
    /\ UNCHANGED <<original_content, content, pass_fixes, all_fixes, applied>>

\* content != original_content and the write raises: return []
FixWriteFails ==
    /\ fixpc = "passes"
    /\ applied = Len(PassOrder)
    /\ content # original_content
    /\ fixpc' = "write_failed"
    /\ returned' = <<>>
    /\ UNCHANGED <<file, original_content, content, pass_fixes, all_fixes, applied>>

\* content == original_content: return all_fixes without writing
FixSkipWrite ==
    /\ fixpc = "passes"
    /\ applied = Len(PassOrder)
    /\ content = original_content
    /\ fixpc' = "skipped_write"
    /\ returned' = all_fixes
    /\ UNCHANGED <<file, original_content, content, pass_fixes, all_fixes, applied>>

NextFix ==
    /\ UNCHANGED <<lockvars, funvars>>
    /\
      \/ FixRead
      \/ FixReadFails
      \/ FixPass
      \/ FixWrite
      \/ FixWriteFails
      \/ FixSkipWrite

SpecFix == InitFix /\ [][NextFix]_vars

\* the buffer after the first k passes of an order
RECURSIVE RunPrefix(_, _, _)
RunPrefix(order, buf, k) ==
    IF k = 0 THEN buf ELSE ApplyPass(order[k], RunPrefix(order, buf, k - 1)).buf
\* the run has read the file
HasRead == fixpc = "passes" \/ fixpc \in AfterPasses
OrderHolds(order) ==
    /\ HasRead => content = RunPrefix(order, original_content, applied)
    /\ fixpc \in AfterPasses => applied = Len(order)

\* C5 (as claimed): the passes run in the order link brackets, renumbering,
\* placement, spacing, source designation, tables, each on the buffer of
\* the pass before
C5_ClaimedOrder ==
    OrderHolds(<<"link_brackets", "callout_numbering", "callout_placement",
                 "callout_spacing", "callouts", "tables">>)
\* C5 (amended): the passes run in the order link brackets, renumbering,
\* placement, source designation, spacing, tables, each on the buffer of
\* the pass before
C5_SourceBeforeSpacing ==
    OrderHolds(<<"link_brackets", "callout_numbering", "callout_placement",
                 "callouts", "callout_spacing", "tables">>)
\* a finished run in which the fourth and the fifth pass both changed the
\* buffer and the two orders give different final buffers or fix lists
C5_Witness ==
    /\ fixpc = "wrote"
    /\ RunPrefix(PassOrder, original_content, 4) # RunPrefix(PassOrder, original_content, 3)
    /\ RunPrefix(PassOrder, original_content, 5) # RunPrefix(PassOrder, original_content, 4)
    /\ content = RunPrefix(PassOrder, original_content, 6)

\* C6: the file is written exactly when the final buffer differs from the
\* content read, an unchanged buffer comes with an empty returned list,
\* and a pass that leaves its buffer unchanged reports no fix
C6_FixesOnlyWithChange ==
    /\ fixpc \in AfterPasses =>
         /\ (fixpc \in {"wrote", "write_failed"}) <=> (content # original_content)
         /\ (fixpc = "wrote") => file = content
         /\ (fixpc # "wrote") => file = original_content
         /\ (content = original_content) => returned = <<>>
    /\ (fixpc = "passes" /\ applied > 0
          /\ content = RunPrefix(PassOrder, original_content, applied - 1)) => pass_fixes = <<>>
\* the parts of C6 the code keeps: the write decision and the single passes
C6_WriteDecision ==
    /\ fixpc \in AfterPasses =>
         /\ (fixpc \in {"wrote", "write_failed"}) <=> (content # original_content)
         /\ (fixpc = "wrote") => file = content
         /\ (fixpc # "wrote") => file = original_content
    /\ (fixpc = "passes" /\ applied > 0
          /\ content = RunPrefix(PassOrder, original_content, applied - 1)) => pass_fixes = <<>>

(***************************************************************************)
(* SpecLang: detect_block_language applied to bounded blocks               *)
(***************************************************************************)
\* longest block, in lines, the detector is applied to
MaxBlockLines == 3

\* one line per indicator the catalogue of samples can trigger, and a line
\* that triggers none
LangLineSet ==
    {Ln("code", <<>>, a) :
        a \in {"", "kv", "kind", "sh", "cmd", "sec", "eq", "imp", "fn", "xml", "js"}}
LangBlocks == UNION {[1..n -> LangLineSet] : n \in 1..MaxBlockLines}

InitLang ==
    /\ arg \in LangBlocks
    /\ res = <<>>
    /\ phase = "input"
    /\ LockIdle
    /\ FixIdle

ApplyDetect ==
    /\ phase = "input"
    /\ res' = detect_block_language(arg)
    /\ phase' = "done"
    /\ UNCHANGED <<arg, lockvars, fixvars>>

NextLang == ApplyDetect

SpecLang == InitLang /\ [][NextLang]_vars

\* the families whose score no other family exceeds
TopFamilies(scores) ==
    {f \in DOMAIN scores : \A g \in DOMAIN scores : scores[g] <= scores[f]}
AllZero(scores) == \A f \in DOMAIN scores : scores[f] = 0
\* position of a family in the order yaml, bash, ini, python, xml, json
FamilyRank(f) == CHOOSE k \in 1..Len(Families) : Families[k] = f

\* C9 (as claimed): the family with the strictly highest score is returned;
\* a shared highest score and all scores zero give yaml
C9_TieGivesYaml ==
    phase = "done" =>
        LET scores == Scores(arg) IN
        IF ~AllZero(scores) /\ Cardinality(TopFamilies(scores)) = 1
           THEN res \in TopFamilies(scores)
           ELSE res = "yaml"
\* C9 (amended): the family with the highest score is returned; when the
\* highest score is shared the first of the sharing families in the order
\* yaml, bash, ini, python, xml, json is returned; all scores zero give yaml
C9_FirstTopFamily ==
    phase = "done" =>
        LET scores == Scores(arg) IN
        IF AllZero(scores)
           THEN res = "yaml"
           ELSE /\ res \in TopFamilies(scores)
                /\ \A f \in TopFamilies(scores) : FamilyRank(res) <= FamilyRank(f)
\* a block in which bash and ini share the highest score and yaml has none
C9_Witness ==
    /\ phase = "done"
    /\ TopFamilies(Scores(arg)) = {"bash", "ini"}
    /\ res = "bash"

(***************************************************************************)
(* AsciiDocTableParser.  A table line is a sequence of one-character       *)
(* strings, so that writing a grid out and reading it back are the text    *)
(* operations of the code.                                                 *)
(***************************************************************************)
Digits == <<"0", "1", "2", "3", "4", "5", "6", "7", "8", "9">>
\* \d
IsDigit(c) == \E d \in 1..Len(Digits) : Digits[d] = c
DigitValue(c) == (CHOOSE d \in 1..Len(Digits) : Digits[d] = c) - 1
\* \s
IsSpace(c) == c = " "
\* [a-z]
LowerLetters ==
    {"a", "b", "c", "d", "e", "f", "g", "h", "i", "j", "k", "l", "m",
     "n", "o", "p", "q", "r", "s", "t", "u", "v", "w", "x", "y", "z"}
\* the lines "|===" and "|===="
TableDelimLine == <<"|", "=", "=", "=">>
TableDelimLine4 == <<"|", "=", "=", "=", "=">>

\* the character at index i, "" past the end
CharAt(s, i) == IF i \in 1..Len(s) THEN s[i] ELSE ""
\* str.strip()
Strip(s) ==
    LET keep == {i \in 1..Len(s) : ~IsSpace(s[i])} IN
    IF keep = {} THEN <<>>
    ELSE SubSeq(s, CHOOSE i \in keep : \A j \in keep : i <= j,
                   CHOOSE i \in keep : \A j \in keep : j <= i)
\* index after the longest run of digits (\d+, \d*) that starts at i
DigitsEnd(s, i) ==
    CHOOSE j \in i..(Len(s) + 1) :
        /\ \A k \in i..(j - 1) : IsDigit(s[k])
        /\ j = Len(s) + 1 \/ ~IsDigit(s[j])
\* index after the longest run of white space (\s*) that starts at i
SpacesEnd(s, i) ==
    CHOOSE j \in i..(Len(s) + 1) :
        /\ \A k \in i..(j - 1) : IsSpace(s[k])
        /\ j = Len(s) + 1 \/ ~IsSpace(s[j])
\* int(text) for a text of digits
RECURSIVE ToInt(_)
ToInt(ds) ==
    IF ds = <<>> THEN 0
    ELSE Len(Digits) * ToInt(SubSeq(ds, 1, Len(ds) - 1)) + DigitValue(ds[Len(ds)])
\* str(n), as the f-strings of reconstruct_table write a span
RECURSIVE ToStr(_)
ToStr(n) ==
    IF n < Len(Digits) THEN <<Digits[n + 1]>>
    ELSE ToStr(n \div Len(Digits)) \o <<Digits[(n % Len(Digits)) + 1]>>

\* \d+(?:\.\d+)?\+ tried at index i: the index of the "+", 0 without a match
SpanPlus(s, i) ==
    LET d1 == DigitsEnd(s, i)
        d2 == IF CharAt(s, d1) = "." THEN DigitsEnd(s, d1 + 1) ELSE d1
        plus == IF CharAt(s, d1) = "." THEN (IF d2 > d1 + 1 THEN d2 ELSE 0) ELSE d1
    IN IF d1 > i /\ plus > 0 /\ CharAt(s, plus) = "+" THEN plus ELSE 0

\* cell_boundary_pattern tried at index i: the index after the match, 0
\* without a match.  First \s*\d+(?:\.\d+)?\+\| and then (?<!\d)\|
BoundaryEnd(s, i) ==
    LET sp == SpacesEnd(s, i)
        plus == SpanPlus(s, sp)
    IN IF plus > 0 /\ CharAt(s, plus + 1) = "|" THEN plus + 2
       ELSE IF s[i] = "|" /\ ~(i > 1 /\ IsDigit(s[i - 1])) THEN i + 1
       ELSE 0

\* boundaries: match.start() of re.finditer, searching on from index i
RECURSIVE Boundaries(_, _)
Boundaries(s, i) ==
    IF i > Len(s) THEN <<>>
    ELSE LET e == BoundaryEnd(s, i) IN
         IF e > 0 THEN <<i>> \o Boundaries(s, e) ELSE Boundaries(s, i + 1)

\* class Cell; an empty grid position (None) and class SpanPlaceholder are
\* records of the same shape
Cell(cell_content, colspan, rowspan, format_spec, source_line) ==
    [t |-> "cell", content |-> cell_content, colspan |-> colspan, rowspan |-> rowspan,
     format_spec |-> format_spec, source_line |-> source_line]
None == [Cell(<<>>, 0, 0, <<>>, 0) EXCEPT !.t = "none"]
SpanPlaceholder(original_cell) == [original_cell EXCEPT !.t = "span"]

\* the body of the inner loop of extract_cells_from_lines for one cell_text
ParseCell(text, line_no) ==
    LET t1 == Strip(text)
        t2 == IF t1 # <<>> /\ t1[1] = "|" THEN Tail(t1) ELSE t1
        d1 == DigitsEnd(t2, 1)
        plus == SpanPlus(t2, 1)
        \* (\d+)\.(\d+)\+\|?  and otherwise  (\d+)\+\|?
        span_match == plus > 0 /\ CharAt(t2, d1) = "."
        colspan_match == plus > 0 /\ ~span_match
        after == IF CharAt(t2, plus + 1) = "|" THEN plus + 2 ELSE plus + 1
        colspan == IF plus > 0 THEN ToInt(SubSeq(t2, 1, d1 - 1)) ELSE 1
        rowspan == IF span_match THEN ToInt(SubSeq(t2, d1 + 1, plus - 1)) ELSE 1
        t3 == IF plus > 0 THEN SubSeq(t2, after, Len(t2)) ELSE t2
        \* ([a-z])\|
        format_match == Len(t3) >= 2 /\ t3[1] \in LowerLetters /\ t3[2] = "|"
        format_spec == IF format_match THEN <<t3[1]>> ELSE <<>>
        t4 == IF format_match THEN SubSeq(t3, 3, Len(t3)) ELSE t3
        cell_content == Strip(t4)
    IN [skip |-> \/ t1 = <<>>
                 \/ cell_content = <<>> /\ colspan = 1 /\ rowspan = 1 /\ format_spec = <<>>,
        cell |-> Cell(cell_content, colspan, rowspan, format_spec, line_no)]

\* the cells between the boundaries of a stripped line; line_no counts from 0
CellsBetween(stripped, boundaries, line_no) ==
    [idx \in 1..(Len(boundaries) - 1) |->
        ParseCell(SubSeq(stripped, boundaries[idx], boundaries[idx + 1] - 1), line_no)]

\* the cells that are appended: those that are not skipped
KeptCells(parsed) ==
    [n \in 1..Len(SelectSeq(parsed, LAMBDA c : ~c.skip)) |->
        SelectSeq(parsed, LAMBDA c : ~c.skip)[n].cell]

\* the cells of one stripped line; delimiter lines and empty lines give none
StrippedCells(stripped, line_no) ==
    IF stripped \in {<<>>, TableDelimLine, TableDelimLine4} THEN <<>>
    ELSE KeptCells(CellsBetween(stripped,
                                Boundaries(stripped, 1) \o <<Len(stripped) + 1>>, line_no))

LineCells(line, line_no) == StrippedCells(Strip(line), line_no)

RECURSIVE CellsFrom(_, _)
CellsFrom(table_lines, i) ==
    IF i > Len(table_lines) THEN <<>>
    ELSE LineCells(table_lines[i], i - 1) \o CellsFrom(table_lines, i + 1)

extract_cells_from_lines(table_lines) == CellsFrom(table_lines, 1)

\* max_rows = len(cells) + 10
ExtraRows == 10

\* the first position at or after (row, col), in reading order, that holds
\* None; the row is past the grid when there is none
RECURSIVE NextFree(_, _, _, _)
NextFree(grid, expected_cols, row, col) ==
    IF row > Len(grid) THEN <<row, col>>
    ELSE LET c == CHOOSE n \in col..(expected_cols + 1) :
                     /\ \A k \in col..(n - 1) : grid[row][k] # None
                     /\ n = expected_cols + 1 \/ grid[row][n] = None
         IN IF c <= expected_cols THEN <<row, c>>
            ELSE NextFree(grid, expected_cols, row + 1, 1)

\* "Place cell and mark spanned positions"
PlaceCell(grid, expected_cols, cell, row, col) ==
    [r \in 1..Len(grid) |->
        [c \in 1..expected_cols |->
            IF /\ r >= row /\ r < row + cell.rowspan
               /\ c >= col /\ c < col + cell.colspan
               THEN IF r = row /\ c = col THEN cell ELSE SpanPlaceholder(cell)
               ELSE grid[r][c]]]

\* the loop of build_grid over the cells from the k-th on
RECURSIVE BuildLoop(_, _, _, _)
BuildLoop(cells, expected_cols, k, st) ==
    IF k > Len(cells) THEN st.grid
    ELSE LET pos == NextFree(st.grid, expected_cols, st.row, st.col)
             cell == cells[k]
             col == pos[2] + cell.colspan
         IN IF pos[1] > Len(st.grid) THEN st.grid
            ELSE BuildLoop(cells, expected_cols, k + 1,
                    [grid |-> PlaceCell(st.grid, expected_cols, cell, pos[1], pos[2]),
                     row |-> IF col > expected_cols THEN pos[1] + 1 ELSE pos[1],
                     col |-> IF col > expected_cols THEN 1 ELSE col])

\* "Trim empty rows from end"
TrimGrid(grid) ==
    LET used == {r \in 1..Len(grid) : \E c \in DOMAIN grid[r] : grid[r][c] # None} IN
    IF used = {} THEN <<>>
    ELSE SubSeq(grid, 1, CHOOSE r \in used : \A q \in used : q <= r)

build_grid(cells, expected_cols) ==
    TrimGrid(BuildLoop(cells, expected_cols, 1,
        [grid |-> [r \in 1..(Len(cells) + ExtraRows) |-> [c \in 1..expected_cols |-> None]],
         row |-> 1, col |-> 1]))

\* fix record "Row {row}: Added empty cell at column {col}"
CellFix(row, col) == [f |-> "Added empty cell", at |-> row, col |-> col]

\* (mutant) the first row is not looked at
validate_and_fix_grid_from_second_row(grid, expected_cols) ==
    LET at(n) == <<((n - 1) \div expected_cols) + 1, ((n - 1) % expected_cols) + 1>>
        all == [n \in 1..(Len(grid) * expected_cols) |-> at(n)]
        gaps == SelectSeq(all, LAMBDA q : q[1] > 1 /\ grid[q[1]][q[2]] = None)
    IN [grid |-> [r \in 1..Len(grid) |->
                    [c \in 1..expected_cols |->
                        IF r > 1 /\ grid[r][c] = None THEN Cell(<<>>, 1, 1, <<>>, 0)
                        ELSE grid[r][c]]],
        fixes_made |-> [n \in 1..Len(gaps) |-> CellFix(gaps[n][1], gaps[n][2])]]

\* validate_and_fix_grid: the grid with every None replaced, and the fix records
validate_and_fix_grid(grid, expected_cols) ==
    LET at(n) == <<((n - 1) \div expected_cols) + 1, ((n - 1) % expected_cols) + 1>>
        all == [n \in 1..(Len(grid) * expected_cols) |-> at(n)]
        gaps == SelectSeq(all, LAMBDA q : grid[q[1]][q[2]] = None)
    IN [grid |-> [r \in 1..Len(grid) |->
                    [c \in 1..expected_cols |->
                        IF grid[r][c] = None THEN Cell(<<>>, 1, 1, <<>>, 0) ELSE grid[r][c]]],
        fixes_made |-> [n \in 1..Len(gaps) |-> CellFix(gaps[n][1], gaps[n][2])]]

\* cell_spec of reconstruct_table
CellSpec(cell) ==
    IF cell = None THEN <<"|">>
    ELSE <<"|">>
         \o (IF cell.colspan > 1 /\ cell.rowspan > 1
                THEN ToStr(cell.colspan) \o <<".">> \o ToStr(cell.rowspan) \o <<"+">>
             ELSE IF cell.colspan > 1 THEN ToStr(cell.colspan) \o <<"+">>
             ELSE IF cell.rowspan > 1 THEN <<"1", ".">> \o ToStr(cell.rowspan) \o <<"+">>
             ELSE <<>>)
         \o (IF cell.colspan > 1 \/ cell.rowspan > 1 THEN <<"|">> ELSE <<>>)
         \o (IF cell.format_spec # <<>> THEN cell.format_spec \o <<"|">> ELSE <<>>)
         \o (IF cell.content # <<>> THEN cell.content
             ELSE IF cell.format_spec = <<>> THEN <<" ">> ELSE <<>>)

\* " ".join(line_parts)
RECURSIVE JoinParts(_)
JoinParts(parts) ==
    IF Len(parts) = 1 THEN parts[1]
    ELSE parts[1] \o <<" ">> \o JoinParts(Tail(parts))

\* line_parts of a grid row: span placeholders are skipped
LineParts(row) ==
    LET cells == SelectSeq(row, LAMBDA c : c.t # "span")
    IN [n \in 1..Len(cells) |-> CellSpec(cells[n])]

RECURSIVE GridLines(_, _)
GridLines(grid, r) ==
    IF r > Len(grid) THEN <<>>
    ELSE (IF LineParts(grid[r]) = <<>> THEN <<>> ELSE <<JoinParts(LineParts(grid[r]))>>)
         \o GridLines(grid, r + 1)

reconstruct_table(grid) == <<TableDelimLine>> \o GridLines(grid, 1) \o <<TableDelimLine>>

\* the end of parse_and_fix_table: validated is the result of
\* validate_and_fix_grid on the grid that build_grid built
FixedTable(cells, built, validated) ==
    [cells |-> cells, built |-> built, grid |-> validated.grid,
     lines |-> reconstruct_table(validated.grid), fixes |-> validated.fixes_made]

GridTable(cells, built, expected_cols) ==
    FixedTable(cells, built, validate_and_fix_grid(built, expected_cols))

\* "if not cells: return table_lines, []" and otherwise the grid is built
CellsTable(table_lines, cells, expected_cols) ==
    IF cells = <<>>
       THEN [cells |-> cells, built |-> <<>>, grid |-> <<>>,
             lines |-> table_lines, fixes |-> <<>>]
       ELSE GridTable(cells, build_grid(cells, expected_cols), expected_cols)

\* parse_and_fix_table of a new AsciiDocTableParser(expected_cols), with the
\* values it computes on the way
parse_and_fix_table(table_lines, expected_cols) ==
    CellsTable(table_lines, extract_cells_from_lines(table_lines), expected_cols)

(***************************************************************************)
(* SpecTable: parse_and_fix_table applied to bounded tables, and then to   *)
(* the lines it returned                                                   *)
(***************************************************************************)
\* largest number of lines between the delimiters of a table
MaxTableRows == 2
\* largest expected column count
MaxCols == 2

\* "|a"  "|a |b"  "| "  "|a | "  "|2+|a"  "|1.2+|a |b"  "|a |1.2+|b"  "a |b"
TableLineSet ==
    { <<"|", "a">>,
      <<"|", "a", " ", "|", "b">>,
      <<"|", " ">>,
      <<"|", "a", " ", "|", " ">>,
      <<"|", "2", "+", "|", "a">>,
      <<"|", "1", ".", "2", "+", "|", "a", " ", "|", "b">>,
      <<"|", "a", " ", "|", "1", ".", "2", "+", "|", "b">>,
      <<"a", " ", "|", "b">> }
TableBodies == UNION {[1..n -> TableLineSet] : n \in 0..MaxTableRows}

InitTable ==
    /\ arg \in {[table_lines |-> <<TableDelimLine>> \o body \o <<TableDelimLine>>,
                 expected_cols |-> n] : body \in TableBodies, n \in 1..MaxCols}
    /\ res = <<>>
    /\ phase = "input"
    /\ LockIdle
    /\ FixIdle

\* AsciiDocTableParser(expected_cols).parse_and_fix_table(table_lines)
ParseTable ==
    /\ phase = "input"
    /\ res' = <<parse_and_fix_table(arg.table_lines, arg.expected_cols)>>
    /\ phase' = "parsed"
    /\ UNCHANGED <<arg, lockvars, fixvars>>

\* a new parser with the same expected_cols is run on the returned lines
ParseAgain ==
    /\ phase = "parsed"
    /\ res' = Append(res, parse_and_fix_table(res[1].lines, arg.expected_cols))
    /\ phase' = "parsed_again"
    /\ UNCHANGED <<arg, lockvars, fixvars>>

NextTable == ParseTable \/ ParseAgain

SpecTable == InitTable /\ [][NextTable]_vars

\* C10: parsing the lines the parser returned gives the same lines and no
\* fix record
C10_Idempotent ==
    phase = "parsed_again" =>
        /\ res[2].lines = res[1].lines
        /\ res[2].fixes = <<>>
\* the part of C10 the code keeps: the second run returns the same lines
C10_SameLines ==
    phase = "parsed_again" => res[2].lines = res[1].lines

(***************************************************************************)
(* SpecGrid: a grid without spans is written out by reconstruct_table, the *)
(* lines are read back by extract_cells_from_lines and the grid is built   *)
(* again by build_grid with the same expected_cols                         *)
(***************************************************************************)
\* ""  "a"  "b"
GridContents == {<<>>, <<"a">>, <<"b">>}
\* the R x C grids whose cells all have colspan = rowspan = 1
PlainGrids(R, C) ==
    [1..R -> [1..C -> {Cell(t, 1, 1, <<>>, 0) : t \in GridContents}]]

InitGrid ==
    /\ arg \in UNION {{[grid |-> g, expected_cols |-> C] : g \in PlainGrids(R, C)} :
                        R \in 1..MaxTableRows, C \in 1..MaxCols}
    /\ res = <<>>
    /\ phase = "grid"
    /\ LockIdle
    /\ FixIdle

\* parser.reconstruct_table() on a parser whose grid is arg.grid
ReconstructGrid ==
    /\ phase = "grid"
    /\ res' = <<reconstruct_table(arg.grid)>>
    /\ phase' = "lines"
    /\ UNCHANGED <<arg, lockvars, fixvars>>

\* extract_cells_from_lines on the reconstructed lines
ExtractGrid ==
    /\ phase = "lines"
    /\ res' = Append(res, extract_cells_from_lines(res[1]))
    /\ phase' = "cells"
    /\ UNCHANGED <<arg, lockvars, fixvars>>

\* build_grid on the extracted cells, same expected_cols
RebuildGrid ==
    /\ phase = "cells"
    /\ res' = Append(res, build_grid(res[2], arg.expected_cols))
    /\ phase' = "rebuilt"
    /\ UNCHANGED <<arg, lockvars, fixvars>>

NextGrid == ReconstructGrid \/ ExtractGrid \/ RebuildGrid

SpecGrid == InitGrid /\ [][NextGrid]_vars

\* the rebuilt grid has the rows of g and the same content at every position
SameContents(g, rebuilt) ==
    /\ Len(rebuilt) = Len(g)
    /\ \A r \in 1..Len(g) : \A c \in 1..Len(g[r]) :
          /\ rebuilt[r][c].t = "cell"
          /\ rebuilt[r][c].content = g[r][c].content

\* C11: for a grid without spans (contents may be empty), reconstruct_table,
\* then extract_cells_from_lines, then build_grid with the same column count
\* gives the same cell contents at the same positions
C11_RoundTrip ==
    phase = "rebuilt" => SameContents(arg.grid, res[3])
\* the part of C11 the code keeps: grids in which no content is empty
C11_RoundTripNoEmpty ==
    (/\ phase = "rebuilt"
     /\ \A r \in 1..Len(arg.grid) : \A c \in 1..arg.expected_cols :
           arg.grid[r][c].content # <<>>)
        => SameContents(arg.grid, res[3])

\* C12: in the grid that build_grid built, a cell with colspan k (k no larger
\* than the column count) occupies k columns of its row, the anchor and k-1
\* span placeholders of it; a span is never cut down to the columns left in
\* the row
C12_WholeSpanPlaced ==
    phase = "parsed" =>
        \A r \in 1..Len(res[1].built) : \A c \in 1..arg.expected_cols :
            LET cell == res[1].built[r][c] IN
            (cell.t = "cell" /\ cell.colspan <= arg.expected_cols) =>
                /\ c + cell.colspan - 1 <= arg.expected_cols
                /\ \A j \in (c + 1)..(c + cell.colspan - 1) :
                      res[1].built[r][j] = SpanPlaceholder(cell)
\* the part of C12 the code keeps: a span that fits in what is left of the
\* row is placed whole
C12_FittingSpanPlaced ==
    phase = "parsed" =>
        \A r \in 1..Len(res[1].built) : \A c \in 1..arg.expected_cols :
            LET cell == res[1].built[r][c] IN
            (cell.t = "cell" /\ c + cell.colspan - 1 <= arg.expected_cols) =>
                \A j \in (c + 1)..(c + cell.colspan - 1) :
                    res[1].built[r][j] = SpanPlaceholder(cell)

\* the positions of the built grid that hold a Cell
Anchors(grid, expected_cols) ==
    {q \in (1..Len(grid)) \X (1..expected_cols) : grid[q[1]][q[2]].t = "cell"}
\* the positions the cell at q covers besides q, as far as the grid reaches
Footprint(grid, expected_cols, q) ==
    {p \in (1..Len(grid)) \X (1..expected_cols) :
        /\ p # q
        /\ p[1] >= q[1] /\ p[1] < q[1] + grid[q[1]][q[2]].rowspan
        /\ p[2] >= q[2] /\ p[2] < q[2] + grid[q[1]][q[2]].colspan}

\* C28: build_grid writes no position twice: in the grid it built every
\* position of the footprint of a cell holds the span placeholder of that
\* cell (no later cell was written over it), and every extracted cell is
\* the anchor of exactly one position
C28_FootprintsDisjoint ==
    (phase = "parsed" /\ res[1].cells # <<>>) =>
        /\ \A q \in Anchors(res[1].built, arg.expected_cols) :
              \A p \in Footprint(res[1].built, arg.expected_cols, q) :
                  res[1].built[p[1]][p[2]] = SpanPlaceholder(res[1].built[q[1]][q[2]])
        /\ Cardinality(Anchors(res[1].built, arg.expected_cols)) = Len(res[1].cells)
\* the part of C28 the code keeps: every extracted cell is the anchor of one
\* position, and the anchors stand in the order of the cells
C28_EveryCellAnchored ==
    (phase = "parsed" /\ res[1].cells # <<>>) =>
        /\ Cardinality(Anchors(res[1].built, arg.expected_cols)) = Len(res[1].cells)
        /\ \A q \in Anchors(res[1].built, arg.expected_cols) :
              \E k \in 1..Len(res[1].cells) : res[1].built[q[1]][q[2]] = res[1].cells[k]

\* the positions of a grid
GridPositions(grid, expected_cols) == (1..Len(grid)) \X (1..expected_cols)
\* the positions that hold None
Gaps(grid, expected_cols) ==
    {q \in GridPositions(grid, expected_cols) : grid[q[1]][q[2]] = None}

\* C24: after validate_and_fix_grid every position holds a Cell or a
\* SpanPlaceholder; a position that held None holds a new Cell with empty
\* content and colspan = rowspan = 1 and has exactly one fix record, there
\* is no other fix record, and the other positions hold what they held
C24_NoGapLeft ==
    (phase = "parsed" /\ res[1].cells # <<>>) =>
        /\ Len(res[1].grid) = Len(res[1].built)
        /\ \A q \in GridPositions(res[1].built, arg.expected_cols) :
              /\ res[1].grid[q[1]][q[2]].t \in {"cell", "span"}
              /\ res[1].grid[q[1]][q[2]] =
                    IF q \in Gaps(res[1].built, arg.expected_cols)
                    THEN Cell(<<>>, 1, 1, <<>>, 0) ELSE res[1].built[q[1]][q[2]]
              /\ q \in Gaps(res[1].built, arg.expected_cols) =>
                    Cardinality({n \in 1..Len(res[1].fixes) :
                                    res[1].fixes[n] = CellFix(q[1], q[2])}) = 1
        /\ Len(res[1].fixes) = Cardinality(Gaps(res[1].built, arg.expected_cols))
\* a table was parsed whose built grid had a gap in its first row and a
\* cell next to it
C24_Witness ==
    /\ phase = "parsed"
    /\ res[1].cells # <<>>
    /\ <<1, 2>> \in Gaps(res[1].built, arg.expected_cols)
    /\ res[1].built[1][1].t = "cell"
    /\ res[1].grid[1][2] = Cell(<<>>, 1, 1, <<>>, 0)
    /\ res[1].fixes = <<CellFix(1, 2)>>

(***************************************************************************)
(* Part 3.  find_included_files                                            *)
(*                                                                         *)
(* A Path is the sequence of its components below base_dir; Path equality  *)
(* and hashing compare the components as written (".." is kept), the file  *)
(* system resolves them.  The tree has base_dir and one directory "sub".   *)
(***************************************************************************)
\* largest number of include lines in a file
MaxIncludes == 2
\* largest number of components of a path the file system accepts; a longer
\* one makes exists() raise OSError (ENAMETOOLONG)
MaxPathLen == 4

\* the files that exist: base_dir/a and base_dir/sub/b
FileIds == {<<"base", "a">>, <<"sub", "b">>}
\* include::a[]  include::sub/b[]  include::../a[]  include::../sub/b[]
\* include::missing[]
IncludePaths ==
    {<<"a">>, <<"sub", "b">>, <<"..", "a">>, <<"..", "sub", "b">>, <<"missing">>}
IncludeLists == UNION {[1..n -> IncludePaths] : n \in 0..MaxIncludes}

\* the directory reached from dir by one component
StepDir(dir, comp) ==
    IF comp = ".." THEN (IF dir = "sub" THEN "base" ELSE "out")
    ELSE IF comp = "sub" /\ dir = "base" THEN "sub"
    ELSE "out"

RECURSIVE WalkDirs(_, _, _)
WalkDirs(dir, p, k) ==
    IF k >= Len(p) THEN dir ELSE WalkDirs(StepDir(dir, p[k]), p, k + 1)

\* the file a path names, as the file system resolves it
RealFile(p) == <<WalkDirs("base", p, 1), p[Len(p)]>>

\* Path.exists()
Exists(p) == RealFile(p) \in FileIds
\* the path is longer than the file system accepts
NameTooLong(p) == Len(p) > MaxPathLen

\* current_file.parent
Parent(p) == SubSeq(p, 1, Len(p) - 1)

\* resolved_path of one include line: base_dir / include_path, and
\* current_file.parent / include_path when that does not exist
ResolvedPath(current_file, include_path) ==
    IF Exists(include_path) THEN include_path
    ELSE Parent(current_file) \o include_path

\* the loop over the lines of current_file from the k-th on; an OSError of
\* exists() leaves the loop (the except clause encloses it)
RECURSIVE ScanIncludes(_, _, _, _)
ScanIncludes(lines, k, current_file, st) ==
    IF k > Len(lines) THEN st
    ELSE LET resolved_path == ResolvedPath(current_file, lines[k]) IN
         IF NameTooLong(resolved_path) THEN st
         ELSE IF Exists(resolved_path)
            THEN ScanIncludes(lines, k + 1, current_file,
                    [st EXCEPT !.included_files = @ \cup {resolved_path},
                               !.files_to_process = Append(@, resolved_path)])
            ELSE ScanIncludes(lines, k + 1, current_file, st)

\* files_to_process.pop() takes the last element
LastOf(s) == s[Len(s)]
ButLast(s) == SubSeq(s, 1, Len(s) - 1)

InitInc ==
    /\ arg \in {[files |-> fs, input_file |-> <<"a">>] : fs \in [FileIds -> IncludeLists]}
    /\ res = [included_files |-> {}, files_to_process |-> <<arg.input_file>>,
              processed_files |-> {}, reads |-> <<>>]
    /\ phase = "loop"
    /\ LockIdle
    /\ FixIdle

\* "if current_file in processed_files: continue"
SkipProcessed ==
    /\ phase = "loop"
    /\ res.files_to_process # <<>>
    /\ LastOf(res.files_to_process) \in res.processed_files
    /\ res' = [res EXCEPT !.files_to_process = ButLast(@)]
    /\ UNCHANGED <<arg, phase, lockvars, fixvars>>

\* one iteration that reads current_file and scans it for include lines
ProcessFile ==
    /\ phase = "loop"
    /\ res.files_to_process # <<>>
    /\ LET current_file == LastOf(res.files_to_process) IN
       /\ current_file \notin res.processed_files
       /\ res' = ScanIncludes(arg.files[RealFile(current_file)], 1, current_file,
                    [res EXCEPT !.files_to_process = ButLast(@),
                                !.processed_files = @ \cup {current_file},
                                !.reads = Append(@, RealFile(current_file))])
    /\ UNCHANGED <<arg, phase, lockvars, fixvars>>

\* "return included_files"
ReturnIncluded ==
    /\ phase = "loop"
    /\ res.files_to_process = <<>>
    /\ phase' = "returned"
    /\ UNCHANGED <<arg, res, lockvars, fixvars>>

NextInc == SkipProcessed \/ ProcessFile \/ ReturnIncluded

SpecInc == InitInc /\ [][NextInc]_vars
FairInc == SpecInc /\ WF_funvars(NextInc)

\* how often the file f was opened and read
ReadCount(f) == Cardinality({k \in 1..Len(res.reads) : res.reads[k] = f})

\* C13: find_included_files reads each file at most once, also when a file is
\* reached under several path spellings or through a cycle
C13_ReadAtMostOnce ==
    \A f \in FileIds : ReadCount(f) <= 1
\* the parts of C13 the code keeps: every path spelling is read at most once,
\* and the function returns
C13_OncePerSpelling ==
    Len(res.reads) = Cardinality(res.processed_files)
C13_Terminates == <>(phase = "returned")

(***************************************************************************)
(* Part 4.  red_hat_docs_path: the enumeration of master.adoc entries       *)
(***************************************************************************)
\* largest number of master.adoc files rglob finds
MaxEntries == 2

\* an entry: the directory of master.adoc, the state of its docinfo.xml
\* ("missing", "unparsable", "ok"), and the text of its productnumber and
\* title elements; "absent" is an element that is not there, "notext" an
\* element without text
Entry(dir, docinfo, productnumber, title) ==
    [dir |-> dir, docinfo |-> docinfo, productnumber |-> productnumber, title |-> title]
Entries ==
    { Entry("backup", "ok", "18.0", "Guide"),
      Entry("docs", "missing", "absent", "absent"),
      Entry("docs", "unparsable", "absent", "absent"),
      Entry("docs", "ok", "absent", "Guide"),
      Entry("docs", "ok", "eighteen", "Guide"),
      Entry("docs", "ok", "17.0", "Guide"),
      Entry("docs", "ok", "18", "Guide"),
      Entry("docs", "ok", "18.0", "Guide"),
      Entry("docs", "ok", "18.0", "absent"),
      Entry("docs", "ok", "18.0", "notext"),
      Entry("docs", "ok", "18.0", " "),
      Entry("docs", "ok", "18.0", "Release Notes") }

skip_dirs == {"gerrit-backup", "backup", "old", ".backup", "archive"}

\* get_xml_element_text: None for an element that is absent or has no text
get_xml_element_text(text) == IF text \in {"absent", "notext"} THEN "None" ELSE text

\* the release of packaging's Version(s); <<>> when Version raises (TypeError
\* for None, InvalidVersion for a string that is no version)
Release(s) ==
    CASE s = "17.0" -> <<17, 0>>
      [] s = "18.0" -> <<18, 0>>
      [] s = "18" -> <<18>>
      [] OTHER -> <<>>
VersionRaises(s) == Release(s) = <<>>
\* Version equality compares the releases without their trailing zeros
RECURSIVE StripZeros(_)
StripZeros(rel) ==
    IF rel # <<>> /\ rel[Len(rel)] = 0 THEN StripZeros(SubSeq(rel, 1, Len(rel) - 1))
    ELSE rel
VersionEq(a, b) == StripZeros(Release(a)) = StripZeros(Release(b))

\* path_title.lower().replace(" ", "_")
PathTitle(title) ==
    CASE title = "Guide" -> "guide"
      [] title = "Release Notes" -> "release_notes"
      [] title = " " -> "_"
      [] OTHER -> title

\* what the loop body does with one entry: "raise", "skip" or "yield"
EntryOutcome(e, docs_version, exclude_list) ==
    IF e.dir \in skip_dirs THEN "skip"
    ELSE IF e.docinfo = "missing" THEN "skip"
    ELSE IF e.docinfo = "unparsable" THEN "raise"
    ELSE IF VersionRaises(get_xml_element_text(e.productnumber)) THEN "raise"
    ELSE IF ~VersionEq(get_xml_element_text(e.productnumber), docs_version) THEN "skip"
    ELSE IF get_xml_element_text(e.title) = "None" THEN "skip"
    ELSE IF PathTitle(e.title) \in exclude_list THEN "skip"
    ELSE "yield"

\* the remapped title
Remapped(path_title, remap_titles) ==
    IF path_title \in DOMAIN remap_titles THEN remap_titles[path_title] ELSE path_title

InitDocs ==
    /\ arg \in {[entries |-> es, docs_version |-> "18.0", exclude_list |-> ex,
                 remap_titles |-> rm] :
                    es \in UNION {[1..n -> Entries] : n \in 0..MaxEntries},
                    ex \in {{}, {"release_notes"}},
                    rm \in {<<>>, [t \in {"guide"} |-> "admin_guide"]}}
    /\ res = [i |-> 1, yielded |-> <<>>]
    /\ phase = "walk"
    /\ LockIdle
    /\ FixIdle

\* the entry the loop is at
ThisEntry == arg.entries[res.i]
ThisOutcome == EntryOutcome(ThisEntry, arg.docs_version, arg.exclude_list)
AtEntry == phase = "walk" /\ res.i <= Len(arg.entries)

\* an iteration that ends in "continue"
DocsSkip ==
    /\ AtEntry
    /\ ThisOutcome = "skip"
    /\ res' = [res EXCEPT !.i = @ + 1]
    /\ UNCHANGED <<arg, phase, lockvars, fixvars>>

\* an iteration that reaches the yield
DocsYield ==
    /\ AtEntry
    /\ ThisOutcome = "yield"
    /\ res' = [i |-> res.i + 1,
               yielded |-> Append(res.yielded,
                   [entry |-> res.i,
                    out |-> Remapped(PathTitle(ThisEntry.title), arg.remap_titles)])]
    /\ UNCHANGED <<arg, phase, lockvars, fixvars>>

\* ET.fromstring or Version raises: the generator ends with the exception
DocsRaise ==
    /\ AtEntry
    /\ ThisOutcome = "raise"
    /\ phase' = "raised"
    /\ UNCHANGED <<arg, res, lockvars, fixvars>>

\* rglob is exhausted
DocsEnd ==
    /\ phase = "walk"
    /\ res.i > Len(arg.entries)
    /\ phase' = "done"
    /\ UNCHANGED <<arg, res, lockvars, fixvars>>

NextDocs == DocsSkip \/ DocsYield \/ DocsRaise \/ DocsEnd

SpecDocs == InitDocs /\ [][NextDocs]_vars

\* an entry the enumeration has to yield: docinfo.xml parsable, productnumber
\* a version equal to the requested one, title with text that is not blank,
\* not in a skipped directory and not excluded
ValidEntry(e) ==
    /\ e.dir \notin skip_dirs
    /\ e.docinfo = "ok"
    /\ e.productnumber \in {"18", "18.0"}
    /\ e.title \in {"Guide", "Release Notes"}
    /\ PathTitle(e.title) \notin arg.exclude_list

\* C14: an entry with a missing or unparsable docinfo.xml, an absent, invalid
\* or different productnumber, or a missing or blank title yields no pair, the
\* enumeration never raises, and every valid entry is yielded
C14_BadEntriesSkipped ==
    /\ phase # "raised"
    /\ \A k \in 1..Len(res.yielded) : ValidEntry(arg.entries[res.yielded[k].entry])
    /\ phase = "done" =>
          \A n \in 1..Len(arg.entries) :
              ValidEntry(arg.entries[n]) => \E k \in 1..Len(res.yielded) : res.yielded[k].entry = n
\* the part of C14 the code keeps: a missing docinfo.xml, a different version
\* and a title element that is absent or has no text are skipped
C14_SkippedCases ==
    \A k \in 1..Len(res.yielded) :
        LET e == arg.entries[res.yielded[k].entry] IN
        /\ e.docinfo = "ok"
        /\ e.productnumber \in {"18", "18.0"}
        /\ e.title \notin {"absent", "notext"}

(***************************************************************************)
(* Part 5.  The batch run of __main__: the loop over red_hat_docs_path,    *)
(* the loop over red_hat_relnotes_path, and the summary                    *)
(***************************************************************************)
\* how a convert call ends: it returns, FileLock raises TimeoutError, or
\* asciidoctor / pandoc fails with CalledProcessError
ConvertOutcomes == {"returned", "TimeoutError", "CalledProcessError"}
\* a file the release-notes glob finds: the minor-version regex matches its
\* path or does not
RelnotesFiles == {"match", "nomatch"}

InitBatch ==
    /\ arg \in {[entries |-> es, docs_version |-> "18.0", exclude_list |-> {},
                 remap_titles |-> <<>>, relnotes |-> rs] :
                    es \in UNION {[1..n -> Entries] : n \in 0..MaxEntries},
                    rs \in UNION {[1..n -> RelnotesFiles] : n \in 0..MaxEntries}}
    /\ res = [i |-> 1, yielded |-> <<>>,
              successful_conversions |-> <<>>, failed_conversions |-> <<>>]
    /\ phase = "docs"
    /\ LockIdle
    /\ FixIdle

\* the body of both for loops for the document doc: the try around convert
Recorded(doc, outcome) ==
    [res EXCEPT !.i = @ + 1,
                !.yielded = Append(@, doc),
                !.successful_conversions =
                    IF outcome = "returned" THEN Append(@, doc) ELSE @,
                !.failed_conversions =
                    IF outcome = "returned" THEN @ ELSE Append(@, <<doc, outcome>>)]

InDocsLoop == phase = "docs" /\ res.i <= Len(arg.entries)
DocsEntryOutcome ==
    EntryOutcome(arg.entries[res.i], arg.docs_version, arg.exclude_list)

\* red_hat_docs_path passes over an entry without yielding
BatchDocsSkip ==
    /\ InDocsLoop
    /\ DocsEntryOutcome = "skip"
    /\ res' = [res EXCEPT !.i = @ + 1]
    /\ UNCHANGED <<arg, phase, lockvars, fixvars>>

\* red_hat_docs_path yields an entry and docs_converter.convert runs on it
BatchDocsConvert ==
    /\ InDocsLoop
    /\ DocsEntryOutcome = "yield"
    /\ \E outcome \in ConvertOutcomes : res' = Recorded(<<"docs", res.i>>, outcome)
    /\ UNCHANGED <<arg, phase, lockvars, fixvars>>

\* red_hat_docs_path raises; the for statement is outside every try, so the
\* script ends with the exception
BatchDocsRaise ==
    /\ InDocsLoop
    /\ DocsEntryOutcome = "raise"
    /\ phase' = "aborted"
    /\ UNCHANGED <<arg, res, lockvars, fixvars>>

\* the first loop is over
BatchDocsEnd ==
    /\ phase = "docs"
    /\ res.i > Len(arg.entries)
    /\ phase' = "relnotes"
    /\ res' = [res EXCEPT !.i = 1]
    /\ UNCHANGED <<arg, lockvars, fixvars>>

InRelnotesLoop == phase = "relnotes" /\ res.i <= Len(arg.relnotes)

\* red_hat_relnotes_path: "Failed to detect minor_ver ..., skipping"
BatchRelnotesSkip ==
    /\ InRelnotesLoop
    /\ arg.relnotes[res.i] = "nomatch"
    /\ res' = [res EXCEPT !.i = @ + 1]
    /\ UNCHANGED <<arg, phase, lockvars, fixvars>>

\* red_hat_relnotes_path yields and relnotes_converter.convert runs
BatchRelnotesConvert ==
    /\ InRelnotesLoop
    /\ arg.relnotes[res.i] = "match"
    /\ \E outcome \in ConvertOutcomes : res' = Recorded(<<"relnotes", res.i>>, outcome)
    /\ UNCHANGED <<arg, phase, lockvars, fixvars>>

\* "Print summary"
BatchSummary ==
    /\ phase = "relnotes"
    /\ res.i > Len(arg.relnotes)
    /\ phase' = "summary"
    /\ UNCHANGED <<arg, res, lockvars, fixvars>>

NextBatch ==
    \/ BatchDocsSkip \/ BatchDocsConvert \/ BatchDocsRaise \/ BatchDocsEnd
    \/ BatchRelnotesSkip \/ BatchRelnotesConvert \/ BatchSummary

SpecBatch == InitBatch /\ [][NextBatch]_vars
\* the script keeps running until it ends
FairBatch == SpecBatch /\ WF_funvars(NextBatch)

\* how often doc stands in the two lists
TimesRecorded(doc) ==
    Cardinality({k \in 1..Len(res.successful_conversions) :
                    res.successful_conversions[k] = doc})
    + Cardinality({k \in 1..Len(res.failed_conversions) :
                    res.failed_conversions[k][1] = doc})

\* every yielded document is recorded exactly once, and nothing else is
RecordedOnce ==
    /\ \A k \in 1..Len(res.yielded) : TimesRecorded(res.yielded[k]) = 1
    /\ Len(res.successful_conversions) + Len(res.failed_conversions) = Len(res.yielded)

\* C15: in a batch run every yielded document is recorded exactly once, as a
\* successful or as a failed conversion, a failure of one document does not
\* stop the loop, and the summary is always reached
C15_BatchContract ==
    /\ [](RecordedOnce)
    /\ <>(phase = "summary")
\* the parts of C15 the code keeps: the records, and the summary whenever the
\* enumerator itself does not raise
C15_RecordedExactlyOnce == RecordedOnce
C15_SummaryUnlessEnumeratorRaises == <>(phase \in {"summary", "aborted"})
C15_AbortOnlyByEnumerator ==
    phase = "aborted" =>
        /\ res.i <= Len(arg.entries)
        /\ EntryOutcome(arg.entries[res.i], arg.docs_version, arg.exclude_list) = "raise"

(***************************************************************************)
(* Part 6.  DocsConverter.convert and RelNotesConverter.convert: the       *)
(* temporary files of one conversion                                       *)
(***************************************************************************)
\* the step at which an exception is raised, if any: fixing the source
\* files, reading the input, writing the preprocessed copy, creating the XML
\* file, writing the wrapper, or one of asciidoctor / pandoc / the rewriting
\* of their outputs
FailPoints == {"none", "fix", "read", "preprocessed", "xml", "wrapper", "tools"}

InitConv ==
    /\ arg \in [converter : {"DocsConverter", "RelNotesConverter"},
                attributes_file : BOOLEAN,
                fail_at : FailPoints]
    /\ res = [temps |-> {}]
    /\ phase = "fix"
    /\ LockIdle
    /\ FixIdle

Docs == arg.converter = "DocsConverter"
\* an exception outside the inner try: convert ends with it
Fails(step) == arg.fail_at = step

\* find_included_files / fix_adoc_file (and fix_adoc_files_in_directory for
\* the release notes); a lock timeout is raised here
ConvFix ==
    /\ phase = "fix"
    /\ phase' = IF Fails("fix") THEN "raised" ELSE IF Docs THEN "preprocess" ELSE "xml"
    /\ UNCHANGED <<arg, res, lockvars, fixvars>>

\* DocsConverter: read the input, preprocess_adoc_tables, write the result
\* to a NamedTemporaryFile(delete=False) in base_dir
ConvPreprocess ==
    /\ phase = "preprocess"
    /\ IF Fails("read") THEN phase' = "raised" /\ res' = res
       ELSE /\ res' = [res EXCEPT !.temps = @ \cup {"preprocessed"}]
            /\ phase' = IF Fails("preprocessed") THEN "raised" ELSE "xml"
    /\ UNCHANGED <<arg, lockvars, fixvars>>

\* the NamedTemporaryFile with suffix .xml
ConvXmlTemp ==
    /\ phase = "xml"
    /\ IF Fails("xml") THEN phase' = "raised" /\ res' = res
       ELSE /\ res' = [res EXCEPT !.temps = @ \cup {"xml"}]
            /\ phase' = IF arg.attributes_file THEN "wrapper" ELSE "tools"
    /\ UNCHANGED <<arg, lockvars, fixvars>>

\* "if self.attributes_file": the wrapper file, inside the inner try
ConvWrapper ==
    /\ phase = "wrapper"
    /\ res' = [res EXCEPT !.temps = @ \cup {"wrapper"}]
    /\ phase' = IF Fails("wrapper") THEN "finally_raise" ELSE "tools"
    /\ UNCHANGED <<arg, lockvars, fixvars>>

\* asciidoctor, the XML preprocessing, pandoc and the table conversion
ConvTools ==
    /\ phase = "tools"
    /\ phase' = IF Fails("tools") THEN "finally_raise" ELSE "finally_return"
    /\ UNCHANGED <<arg, res, lockvars, fixvars>>

\* the finally clause: DocsConverter unlinks the XML file and the wrapper;
\* RelNotesConverter unlinks the wrapper and the with statement deletes the
\* XML file
ConvFinally ==
    /\ phase \in {"finally_raise", "finally_return"}
    /\ res' = [res EXCEPT !.temps = @ \ {"xml", "wrapper"}]
    /\ phase' = IF phase = "finally_raise" THEN "raised" ELSE "returned"
    /\ UNCHANGED <<arg, lockvars, fixvars>>

NextConv ==
    ConvFix \/ ConvPreprocess \/ ConvXmlTemp \/ ConvWrapper \/ ConvTools \/ ConvFinally

SpecConv == InitConv /\ [][NextConv]_vars

ConvEnded == phase \in {"returned", "raised"}

\* C16: when convert has ended, by returning or by an exception, none of the
\* temporary files it created exists (preprocessed copy, wrapper, XML file)
C16_NoTempFileLeft ==
    ConvEnded => res.temps = {}
\* the parts of C16 the code keeps: the wrapper and the XML file are gone, and
\* RelNotesConverter leaves nothing
C16_WrapperAndXmlRemoved ==
    ConvEnded => res.temps \cap {"xml", "wrapper"} = {}
C16_RelNotesClean ==
    ConvEnded /\ ~Docs => res.temps = {}

(***************************************************************************)
(* SpecTab: preprocess_adoc_tables applied to bounded buffers              *)
(***************************************************************************)
\* largest number of lines of a buffer given to the table pass
MaxTabLines == 5

\* |===   (empty)   |cell   |   |cell |   text
TabLineSet ==
    {TDelim, Blank, Ln("row", <<>>, ""), Ln("bar", <<>>, ""), Ln("rowbar", <<>>, ""), Text}
TabBuffers == UNION {[1..n -> TabLineSet] : n \in 1..MaxTabLines}

InitTab ==
    /\ arg \in TabBuffers
    /\ res = <<>>
    /\ phase = "input"
    /\ LockIdle
    /\ FixIdle

ApplyTables ==
    /\ phase = "input"
    /\ res' = preprocess_adoc_tables(arg)
    /\ phase' = "done"
    /\ UNCHANGED <<arg, lockvars, fixvars>>

NextTab == ApplyTables

SpecTab == InitTab /\ [][NextTab]_vars

\* the positions of the |=== lines of a buffer
DelimPositions(buf) == {i \in 1..Len(buf) : IsTableDelim(buf[i])}
\* the buffer ends inside a table
Unclosed(buf) == Cardinality(DelimPositions(buf)) % 2 = 1
\* the position of the last |=== line
LastDelim(buf) == CHOOSE i \in DelimPositions(buf) : \A j \in DelimPositions(buf) : j <= i
\* the fix records with the message f
FixesNamed(fixes, f) == {k \in 1..Len(fixes) : fixes[k].f = f}

\* C17: when the input ends inside a table, the output ends with all lines of
\* that table followed by an appended |=== (and the final newline), and one
\* fix record reports the closed table; when every table is closed there is
\* no such record
C17_UnclosedTableClosed ==
    phase = "done" =>
        IF Unclosed(arg)
           THEN LET tab == SubSeq(arg, LastDelim(arg), Len(arg))
                    n == Len(res.buf)
                IN /\ n >= Len(tab) + 2
                   /\ SubSeq(res.buf, n - Len(tab) - 1, n) = tab \o <<TDelim, Blank>>
                   /\ Cardinality(FixesNamed(res.fixes, "Closed unclosed table")) = 1
           ELSE FixesNamed(res.fixes, "Closed unclosed table") = {}
\* an unclosed table with two lines after its opening |=== has been closed
C17_Witness ==
    /\ phase = "done"
    /\ Unclosed(arg)
    /\ Len(arg) >= LastDelim(arg) + 2
    /\ arg[Len(arg)] # Blank
    /\ FixesNamed(res.fixes, "Closed unclosed table") # {}

\* the |=== at position i opens a table of the buffer
OpensTable(buf, i) ==
    /\ i \in DelimPositions(buf)
    /\ Cardinality({j \in DelimPositions(buf) : j <= i}) % 2 = 1
\* the position of the |=== that closes the table opened at i; 0 when the
\* table is not closed
ClosingDelim(buf, i) ==
    LET later == {j \in DelimPositions(buf) : j > i}
    IN IF later = {} THEN 0 ELSE CHOOSE j \in later : \A q \in later : j <= q
\* the lines strictly between the two delimiters of the table opened at i
BodyPositions(buf, i) == (i + 1)..(ClosingDelim(buf, i) - 1)
\* the table opened at i is closed and has a non-blank line
TableHasBody(buf, i) ==
    /\ ClosingDelim(buf, i) # 0
    /\ \E j \in BodyPositions(buf, i) : ~IsBlank(buf[j])
\* closed tables of the buffer all of whose body lines are blank
BlankTables(buf) ==
    {i \in 1..Len(buf) :
        /\ OpensTable(buf, i)
        /\ ClosingDelim(buf, i) # 0
        /\ \A j \in BodyPositions(buf, i) : IsBlank(buf[j])}
\* the placeholder rows of the output stand directly before a closing |===
PlaceholderRows(buf) == {j \in 1..Len(buf) : buf[j] = Placeholder}
PlaceholdersBeforeClose(buf) ==
    \A j \in PlaceholderRows(buf) :
        \E i \in 1..Len(buf) : OpensTable(buf, i) /\ ClosingDelim(buf, i) = j + 1

\* C18: after preprocess_adoc_tables every table of the output has a
\* non-blank body line; a table without body rows got one placeholder row
\* directly before its closing |=== and one fix record
C18_EveryTableHasBody ==
    phase = "done" =>
        /\ \A i \in 1..Len(res.buf) : OpensTable(res.buf, i) => TableHasBody(res.buf, i)
        /\ PlaceholdersBeforeClose(res.buf)
        /\ Cardinality(PlaceholderRows(res.buf)) >= Cardinality(BlankTables(arg))
        /\ Cardinality(PlaceholderRows(res.buf))
              = Cardinality(FixesNamed(res.fixes, "Added placeholder row"))
\* the part of C18 the code keeps: the same for inputs in which every table
\* is closed
C18_ClosedTablesHaveBody ==
    (phase = "done" /\ ~Unclosed(arg)) =>
        /\ \A i \in 1..Len(res.buf) : OpensTable(res.buf, i) => TableHasBody(res.buf, i)
        /\ PlaceholdersBeforeClose(res.buf)
        /\ Cardinality(PlaceholderRows(res.buf)) >= Cardinality(BlankTables(arg))
        /\ Cardinality(PlaceholderRows(res.buf))
              = Cardinality(FixesNamed(res.fixes, "Added placeholder row"))
\* a table with a row that is not a lone | gets no placeholder row
C18_NoPlaceholderWithRow ==
    (phase = "done" /\ \A i \in 1..Len(arg) :
        OpensTable(arg, i) =>
            \E j \in BodyPositions(arg, i) : ~IsBlank(arg[j]) /\ ~IsBar(arg[j]))
        => PlaceholderRows(res.buf) = {}

(***************************************************************************)
(* SpecPlace: preprocess_adoc_callout_placement applied to bounded buffers *)
(***************************************************************************)
\* largest number of lines of a buffer given to the placement pass
MaxPlaceLines == 7

\* ----   x <1>   <1> d   text   (empty)
PlaceLineSet == {Delim, Code(<<1>>), Def(1), Text, Blank}
PlaceBuffers == UNION {[1..n -> PlaceLineSet] : n \in 1..MaxPlaceLines}

InitPlace ==
    /\ arg \in PlaceBuffers
    /\ res = <<>>
    /\ phase = "input"
    /\ LockIdle
    /\ FixIdle

ApplyPlacement ==
    /\ phase = "input"
    /\ res' = preprocess_adoc_callout_placement(arg)
    /\ phase' = "done"
    /\ UNCHANGED <<arg, lockvars, fixvars>>

NextPlace == ApplyPlacement

SpecPlace == InitPlace /\ [][NextPlace]_vars

\* the positions of the definition lines of a buffer
DefPositions(buf) == {i \in 1..Len(buf) : IsDef(buf[i])}
\* the first line after position e that is neither blank nor ifeval/endif
\* (0: none)
RECURSIVE NextContent(_, _)
NextContent(buf, e) ==
    IF e + 1 > Len(buf) THEN 0
    ELSE IF IsBlank(buf[e + 1]) \/ IsIfeval(buf[e + 1]) \/ IsEndif(buf[e + 1])
            THEN NextContent(buf, e + 1)
    ELSE e + 1
\* the sum of the definitions the blocks of info need
RECURSIVE TotalNeed(_)
TotalNeed(info) == IF info = <<>> THEN 0 ELSE Head(info).mx + TotalNeed(Tail(info))

\* C19: after preprocess_adoc_callout_placement the definitions assigned to a
\* block with callouts stand after its closing delimiter: when the input has
\* as many definition lines as its blocks need, every block with callouts of
\* the output is followed by a definition line; and the output contains as
\* many definition lines as the input
C19_DefinitionsAfterBlocks ==
    (phase = "done" /\ Cardinality(DefPositions(arg)) >= TotalNeed(BlockInfo(arg))) =>
        /\ \A k \in 1..Len(BlockInfo(res.buf)) :
              LET n == NextContent(res.buf, BlockInfo(res.buf)[k].e)
              IN n # 0 /\ IsDef(res.buf[n])
        /\ Cardinality(DefPositions(res.buf)) = Cardinality(DefPositions(arg))
\* the part of C19 the code keeps: no definition line is lost or doubled
C19_DefinitionsKept ==
    phase = "done" =>
        Cardinality(DefPositions(res.buf)) = Cardinality(DefPositions(arg))

(***************************************************************************)
(* SpecSpace: preprocess_adoc_callout_spacing applied to bounded buffers,  *)
(* and then to its own output                                              *)
(***************************************************************************)
\* largest number of lines of a buffer given to the spacing pass
MaxSpaceLines == 5

\* <1> d   ifeval::[a]   endif::[]   (empty)   text
SpaceLineSet == {Def(1), Ln("ifeval", <<>>, ""), Endif, Blank, Text}
SpaceBuffers == UNION {[1..n -> SpaceLineSet] : n \in 1..MaxSpaceLines}

InitSpace ==
    /\ arg \in SpaceBuffers
    /\ res = <<>>
    /\ phase = "input"
    /\ LockIdle
    /\ FixIdle

ApplySpacing ==
    /\ phase = "input"
    /\ res' = <<preprocess_adoc_callout_spacing(arg)>>
    /\ phase' = "done"
    /\ UNCHANGED <<arg, lockvars, fixvars>>

\* the pass is run on the content it returned
ApplySpacingAgain ==
    /\ phase = "done"
    /\ res' = Append(res, preprocess_adoc_callout_spacing(res[1].buf))
    /\ phase' = "done_again"
    /\ UNCHANGED <<arg, lockvars, fixvars>>

NextSpace == ApplySpacing \/ ApplySpacingAgain

SpecSpace == InitSpace /\ [][NextSpace]_vars

\* the non-blank lines of a buffer, in order
NonBlank(buf) == SelectSeq(buf, LAMBDA l : ~IsBlank(l))
\* a definition line of the output is followed by a definition, an ifeval or
\* endif line, a blank line, or nothing
DefFollowedOk(buf, i) ==
    i = Len(buf) \/ IsDef(buf[i + 1]) \/ IsIfeval(buf[i + 1])
                 \/ IsEndif(buf[i + 1]) \/ IsBlank(buf[i + 1])

\* C20: the spacing pass only inserts blank lines, one fix record for each,
\* after it no definition line is directly followed by other content, and
\* running it again on its own output inserts nothing
C20_SpacingContract ==
    /\ phase \in {"done", "done_again"} =>
          /\ NonBlank(res[1].buf) = NonBlank(arg)
          /\ Len(res[1].buf) = Len(arg) + Len(res[1].fixes)
          /\ \A i \in 1..Len(res[1].buf) :
                IsDef(res[1].buf[i]) => DefFollowedOk(res[1].buf, i)
    /\ phase = "done_again" =>
          /\ res[2].buf = res[1].buf
          /\ res[2].fixes = <<>>
\* the part of C20 the code keeps: only blank lines are inserted, and no
\* definition line is directly followed by other content
C20_OnlyBlankLinesInserted ==
    phase \in {"done", "done_again"} =>
        /\ NonBlank(res[1].buf) = NonBlank(arg)
        /\ Len(res[1].buf) = Len(arg) + Len(res[1].fixes)
        /\ \A i \in 1..Len(res[1].buf) :
              IsDef(res[1].buf[i]) => DefFollowedOk(res[1].buf, i)

(***************************************************************************)
(* SpecCall: preprocess_adoc_callouts applied to bounded buffers           *)
(***************************************************************************)
\* largest number of lines of a buffer given to the callouts pass
MaxCallLines == 6

\* ----   (empty)   x <1>   $ ls   [source,bash]   [subs=v]
CallLineSet ==
    {Delim, Blank, Code(<<1>>), Ln("code", <<>>, "sh"), Ln("source", <<>>, "bash"),
     Ln("subs", <<>>, "")}
CallBuffers == UNION {[1..n -> CallLineSet] : n \in 1..MaxCallLines}

InitCall ==
    /\ arg \in CallBuffers
    /\ res = <<>>
    /\ phase = "input"
    /\ LockIdle
    /\ FixIdle

ApplyCallouts ==
    /\ phase = "input"
    /\ res' = preprocess_adoc_callouts(arg)
    /\ phase' = "done"
    /\ UNCHANGED <<arg, lockvars, fixvars>>

NextCall == ApplyCallouts

SpecCall == InitCall /\ [][NextCall]_vars

\* the ---- at position i opens a block
OpensBlock(buf, i) ==
    /\ IsDelim(buf[i])
    /\ Cardinality({j \in 1..(i - 1) : IsDelim(buf[j])}) % 2 = 0
\* the positions of the lines of the block opened at i
BlockBody(buf, i) ==
    {j \in (i + 1)..Len(buf) : \A q \in (i + 1)..j : ~IsDelim(buf[q])}
BlockHasMarker(buf, i) == \E j \in BlockBody(buf, i) : buf[j].m # <<>>
\* the nearest non-empty line before position i (0: none)
NearestBefore(buf, i) ==
    LET before == {j \in 1..(i - 1) : ~IsBlank(buf[j])}
    IN IF before = {} THEN 0 ELSE CHOOSE j \in before : \A q \in before : q <= j
\* the block opened at i has a [source / [listing line before it
Designated(buf, i) ==
    NearestBefore(buf, i) # 0 /\ buf[NearestBefore(buf, i)].k = "source"
\* the block opened at i needs a designation
NeedsSource(buf, i) ==
    OpensBlock(buf, i) /\ BlockHasMarker(buf, i) /\ ~Designated(buf, i)
BlockLanguage(buf, i) ==
    detect_block_language([n \in 1..Cardinality(BlockBody(buf, i)) |-> buf[i + n]])
\* what the claim puts where line i of the input stood
ExpectedAt(buf, i) ==
    IF NeedsSource(buf, i)
       /\ (NearestBefore(buf, i) = 0 \/ buf[NearestBefore(buf, i)].k # "subs")
       THEN <<Ln("source", <<>>, BlockLanguage(buf, i)), buf[i]>>
    ELSE IF buf[i].k = "subs"
            /\ \E o \in (i + 1)..Len(buf) : NeedsSource(buf, o) /\ NearestBefore(buf, o) = i
       THEN LET o == CHOOSE o \in (i + 1)..Len(buf) :
                        NeedsSource(buf, o) /\ NearestBefore(buf, o) = i
            IN <<[Ln("source", <<>>, BlockLanguage(buf, o)) EXCEPT !.sub = TRUE]>>
    ELSE <<buf[i]>>
RECURSIVE ExpectedFrom(_, _)
ExpectedFrom(buf, i) ==
    IF i > Len(buf) THEN <<>> ELSE ExpectedAt(buf, i) \o ExpectedFrom(buf, i + 1)

\* C21: after preprocess_adoc_callouts every ---- block with a callout marker
\* has a [source / [listing line as nearest non-empty line before it; a
\* [subs=V] line in that place is replaced by [source,<lang>,subs=V], else
\* one [source,<lang>] line is inserted before the opening delimiter, and
\* nothing else changes; there is one fix record per block that was changed
C21_SourceBeforeCalloutBlocks ==
    phase = "done" =>
        /\ \A i \in 1..Len(res.buf) :
              (OpensBlock(res.buf, i) /\ BlockHasMarker(res.buf, i))
                  => Designated(res.buf, i)
        /\ res.buf = ExpectedFrom(arg, 1)
        /\ Len(res.fixes) = Cardinality({i \in 1..Len(arg) : NeedsSource(arg, i)})
\* one block got its [subs=v] line replaced, another a new [source line, and
\* a block without callouts was left alone
C21_Witness ==
    /\ phase = "done"
    /\ \E i \in 1..Len(arg) :
          NeedsSource(arg, i) /\ NearestBefore(arg, i) # 0
          /\ arg[NearestBefore(arg, i)].k = "subs"
    /\ \E i \in 1..Len(arg) :
          NeedsSource(arg, i)
          /\ (NearestBefore(arg, i) = 0 \/ arg[NearestBefore(arg, i)].k # "subs")
    /\ Len(res.fixes) = 2

(***************************************************************************)
(* SpecLink: preprocess_adoc_link_brackets applied to bounded buffers, and *)
(* then to its own output                                                  *)
(***************************************************************************)
\* largest number of lines of a buffer given to the link pass
MaxLinkLines == 3

LinkForms == {"plain", "br", "wrapped", "plainbr", "plainbrw"}
LinkLineSet == {Ln("link", <<>>, f) : f \in LinkForms} \cup {Text}
LinkBuffers == UNION {[1..n -> LinkLineSet] : n \in 1..MaxLinkLines}

InitLink ==
    /\ arg \in LinkBuffers
    /\ res = <<>>
    /\ phase = "input"
    /\ LockIdle
    /\ FixIdle

ApplyLinks ==
    /\ phase = "input"
    /\ res' = <<preprocess_adoc_link_brackets(arg)>>
    /\ phase' = "done"
    /\ UNCHANGED <<arg, lockvars, fixvars>>

\* the pass is run on the content it returned
ApplyLinksAgain ==
    /\ phase = "done"
    /\ res' = Append(res, preprocess_adoc_link_brackets(res[1].buf))
    /\ phase' = "done_again"
    /\ UNCHANGED <<arg, lockvars, fixvars>>

NextLink == ApplyLinks \/ ApplyLinksAgain

SpecLink == InitLink /\ [][NextLink]_vars

\* the text of the link on the line holds a bracket and is not wrapped
LinkTextHasBracket(l) == l.k = "link" /\ l.a = "br"
\* the lines of a buffer whose link text holds a bracket
BracketLinks(buf) == {i \in 1..Len(buf) : LinkTextHasBracket(buf[i])}

\* C22: the link pass wraps the text of a link in pass:[...] exactly when
\* that text holds a bracket and is not wrapped yet, with one fix record for
\* each, leaves every other line as it is (also a link without a bracket in
\* its text that is followed by bracketed text), and changes nothing when it
\* is run again on its own output
C22_LinkContract ==
    /\ phase \in {"done", "done_again"} =>
          /\ Len(res[1].buf) = Len(arg)
          /\ \A i \in 1..Len(arg) :
                res[1].buf[i] = IF LinkTextHasBracket(arg[i])
                                THEN Ln("link", <<>>, "wrapped") ELSE arg[i]
          /\ Len(res[1].fixes) = Cardinality(BracketLinks(arg))
    /\ phase = "done_again" =>
          /\ res[2].buf = res[1].buf
          /\ res[2].fixes = <<>>
\* the part of C22 the code keeps: a link with brackets in its text is
\* wrapped, a wrapped link and a line without brackets are left alone, and
\* a second run changes nothing
C22_BracketLinksWrapped ==
    /\ phase \in {"done", "done_again"} =>
          /\ Len(res[1].buf) = Len(arg)
          /\ \A i \in 1..Len(arg) :
                /\ LinkTextHasBracket(arg[i]) =>
                      res[1].buf[i] = Ln("link", <<>>, "wrapped")
                /\ (arg[i].k # "link" \/ arg[i].a \in {"plain", "wrapped", "plainbrw"}) =>
                      res[1].buf[i] = arg[i]
    /\ phase = "done_again" =>
          /\ res[2].buf = res[1].buf
          /\ res[2].fixes = <<>>

(***************************************************************************)
(* merge_split_table_rows                                                  *)
(***************************************************************************)
\* count_cells_simple: 0 for a line that is empty or has no |, otherwise
\* line.count("|") less one when the line starts with |
count_cells_simple(l) ==
    IF IsBlank(l) \/ l.k = "text" THEN 0
    ELSE IF l.k \in {"row2", "rowbar", "cellbar"} THEN 1
    ELSE IF l.k = "joined" THEN (IF l.a = "row2_row2" THEN 3 ELSE 2)
    ELSE 0

\* |cell |cell
Row2 == Ln("row2", <<>>, "")
\* line.rstrip() + " " + next_line.strip()
\*   |cell and |cell give |cell |cell, and the other pairs give a line
\*   "joined" whose a names the two lines: "row_row2" is |cell |cell |cell,
\*   "row2_row" the same line, "row2_row2" is |cell |cell |cell |cell
Joined(line, next_line) ==
    IF line.k = "row" /\ next_line.k = "row" THEN Row2
    ELSE IF line.k = "row" THEN Ln("joined", <<>>, "row_row2")
    ELSE IF next_line.k = "row" THEN Ln("joined", <<>>, "row2_row")
    ELSE Ln("joined", <<>>, "row2_row2")

\* the first line from j on, before the last line, that is not empty; the
\* index of the last line when there is none
RECURSIVE NextNonEmpty(_, _)
NextNonEmpty(table_lines, j) ==
    IF j < Len(table_lines) /\ IsBlank(table_lines[j])
    THEN NextNonEmpty(table_lines, j + 1)
    ELSE j

\* the line at i is merged with the line at NextNonEmpty(table_lines, i + 1)
MergesAt(table_lines, expected_cols, i) ==
    LET j == NextNonEmpty(table_lines, i + 1) IN
    /\ ~IsBlank(table_lines[i])
    /\ count_cells_simple(table_lines[i]) = 1
    /\ expected_cols = 2
    /\ StartsWithPipe(table_lines[i])
    /\ j < Len(table_lines)
    /\ count_cells_simple(table_lines[j]) = 1
    /\ StartsWithPipe(table_lines[j])

\* the while loop from index i (the lines are numbered from 1 here)
RECURSIVE MergeFrom(_, _, _, _)
MergeFrom(table_lines, expected_cols, table_start_idx, i) ==
    IF i >= Len(table_lines) THEN [buf |-> <<>>, fixes |-> <<>>]
    ELSE IF MergesAt(table_lines, expected_cols, i)
    THEN LET rest == MergeFrom(table_lines, expected_cols, table_start_idx,
                               NextNonEmpty(table_lines, i + 1) + 1)
         IN [buf |-> <<Joined(table_lines[i], table_lines[NextNonEmpty(table_lines, i + 1)])>>
                        \o rest.buf,
             fixes |-> <<Fix("Merged 2 split lines", table_start_idx + i)>> \o rest.fixes]
    ELSE LET rest == MergeFrom(table_lines, expected_cols, table_start_idx, i + 1)
         IN [buf |-> <<table_lines[i]>> \o rest.buf, fixes |-> rest.fixes]

merge_split_table_rows(table_lines, expected_cols, table_start_idx) ==
    LET body == MergeFrom(table_lines, expected_cols, table_start_idx, 2)
    IN [buf |-> <<table_lines[1]>> \o body.buf \o <<table_lines[Len(table_lines)]>>,
        fixes |-> body.fixes]

(***************************************************************************)
(* SpecMerge: merge_split_table_rows applied to bounded tables             *)
(***************************************************************************)
\* largest number of lines between the delimiters of a table
MaxMergeLines == 4
\* largest expected column count
MaxMergeCols == 3

\* (empty)   |cell   |cell |cell   cell |   text
MergeLineSet == {Blank, Ln("row", <<>>, ""), Row2, Ln("cellbar", <<>>, ""), Text}
MergeTables ==
    UNION {{<<TDelim>> \o b \o <<TDelim>> : b \in [1..n -> MergeLineSet]} : n \in 0..MaxMergeLines}

InitMerge ==
    /\ arg \in [table_lines : MergeTables, expected_cols : 1..MaxMergeCols,
                table_start_idx : {0, 10}]
    /\ res = <<>>
    /\ phase = "input"
    /\ LockIdle
    /\ FixIdle

ApplyMerge ==
    /\ phase = "input"
    /\ res' = merge_split_table_rows(arg.table_lines, arg.expected_cols, arg.table_start_idx)
    /\ phase' = "done"
    /\ UNCHANGED <<arg, lockvars, fixvars>>

NextMerge == ApplyMerge

SpecMerge == InitMerge /\ [][NextMerge]_vars

\* a row line that holds exactly one cell
SingleCell(l) == l.k = "row"
\* the lines at i and i + 1 are a run of exactly two single-cell lines
RunOfTwo(t, i) ==
    /\ i + 1 < Len(t)
    /\ SingleCell(t[i]) /\ SingleCell(t[i + 1])
    /\ ~SingleCell(t[i - 1])
    /\ ~SingleCell(t[i + 2])
\* where the runs of exactly two start, when two columns are expected
RunsOfTwo(t, cols) == {i \in 2..(Len(t) - 1) : cols = 2 /\ RunOfTwo(t, i)}
\* the lines from i on, with the runs that start at an index of S joined
RECURSIVE JoinedFrom(_, _, _)
JoinedFrom(t, S, i) ==
    IF i >= Len(t) THEN <<>>
    ELSE IF i \in S THEN <<Joined(t[i], t[i + 1])>> \o JoinedFrom(t, S, i + 2)
    ELSE <<t[i]>> \o JoinedFrom(t, S, i + 1)

\* C23: merge_split_table_rows joins two lines only when two columns are
\* expected and the lines are a run of exactly two consecutive single-cell
\* lines, with one fix record for each join; every other line, and both
\* delimiter lines, are kept as they are
C23_MergesRunsOfTwo ==
    phase = "done" =>
        \E S \in SUBSET RunsOfTwo(arg.table_lines, arg.expected_cols) :
            /\ res.buf = <<TDelim>> \o JoinedFrom(arg.table_lines, S, 2) \o <<TDelim>>
            /\ Len(res.fixes) = Cardinality(S)
\* the part of C23 the code keeps: nothing is changed unless two columns
\* are expected, the delimiter lines are kept, every joined line takes the
\* place of two lines and has its fix record, and the lines |cell are kept
C23_DelimitersAndOtherWidthsKept ==
    phase = "done" =>
        /\ arg.expected_cols # 2 => res.buf = arg.table_lines /\ res.fixes = <<>>
        /\ res.buf[1] = TDelim /\ res.buf[Len(res.buf)] = TDelim
        /\ Len(SelectSeq(res.buf, LAMBDA l : l.k = "joined")) = Len(res.fixes)
        /\ Len(SelectSeq(arg.table_lines, LAMBDA l : l.k = "row2"))
              - Len(SelectSeq(res.buf, LAMBDA l : l.k = "row2")) = 2 * Len(res.fixes)
        /\ SelectSeq(res.buf, LAMBDA l : l.k \in {"row", "text", "cellbar"})
              = SelectSeq(arg.table_lines, LAMBDA l : l.k \in {"row", "text", "cellbar"})

(***************************************************************************)
(* resolve_adoc_includes                                                   *)
(*                                                                         *)
(* The files are those of Part 3.  A line of a file is the path of its     *)
(* include directive, or <<>> for a line that is no include directive.     *)
(* The recursion is a stack of frames: the file of the call, the index of  *)
(* the line the loop is at, and new_lines.  A line of the result is        *)
(*   [t |-> "line", p |-> <<>>]   a line that is no include directive      *)
(*   [t |-> "include", p |-> q]   the directive include::q[]               *)
(*   [t |-> "begin", p |-> q]     // BEGIN INCLUDE: q                      *)
(*   [t |-> "end", p |-> q]       // END INCLUDE: q                        *)
(***************************************************************************)
\* largest number of lines of a file
MaxResolveLines == 2
\* the depth of calls at which the interpreter raises RecursionError
RecursionLimit == 3

ResolveLineSet == IncludePaths \cup {<<>>}
ResolveFiles == UNION {[1..n -> ResolveLineSet] : n \in 1..MaxResolveLines}

OutLine(t, p) == [t |-> t, p |-> p]
Frame(current_file) == [current_file |-> current_file, k |-> 1, new_lines |-> <<>>]

\* resolve_adoc_includes(content, base_dir, input_file) is called with the
\* content of input_file
InitResolve ==
    /\ arg \in {[files |-> fs, input_file |-> <<"a">>] : fs \in [FileIds -> ResolveFiles]}
    /\ res = [stack |-> <<Frame(<<"a">>)>>, returned |-> <<>>]
    /\ phase = "resolving"
    /\ LockIdle
    /\ FixIdle

\* the frame of the innermost call, its lines and the line it is at
TopFrame == res.stack[Len(res.stack)]
FrameLines(fr) == arg.files[RealFile(fr.current_file)]
AtLine == TopFrame.k <= Len(FrameLines(TopFrame))
ThisLine == FrameLines(TopFrame)[TopFrame.k]

\* the innermost frame with a line appended to new_lines and the loop moved on
Appended(stack, new) ==
    [stack EXCEPT ![Len(stack)] =
        [@ EXCEPT !.new_lines = @ \o new, !.k = @ + 1]]

\* "else: new_lines.append(line)" for a line that is no include directive
ResolveKeepLine ==
    /\ phase = "resolving" /\ AtLine
    /\ ThisLine = <<>>
    /\ res' = [res EXCEPT !.stack = Appended(@, <<OutLine("line", <<>>)>>)]
    /\ UNCHANGED <<arg, phase, lockvars, fixvars>>

\* the include is found neither below base_dir nor next to the current file:
\* the directive line is kept
ResolveNotFound ==
    /\ phase = "resolving" /\ AtLine
    /\ ThisLine # <<>>
    /\ LET resolved_path == ResolvedPath(TopFrame.current_file, ThisLine) IN
       /\ ~NameTooLong(resolved_path)
       /\ ~Exists(resolved_path)
    /\ res' = [res EXCEPT !.stack = Appended(@, <<OutLine("include", ThisLine)>>)]
    /\ UNCHANGED <<arg, phase, lockvars, fixvars>>

\* the included file is read and resolve_adoc_includes is called on it
ResolveCall ==
    /\ phase = "resolving" /\ AtLine
    /\ ThisLine # <<>>
    /\ LET resolved_path == ResolvedPath(TopFrame.current_file, ThisLine) IN
       /\ ~NameTooLong(resolved_path)
       /\ Exists(resolved_path)
       /\ Len(res.stack) < RecursionLimit
       /\ res' = [res EXCEPT !.stack = Append(@, Frame(resolved_path))]
    /\ UNCHANGED <<arg, phase, lockvars, fixvars>>

\* the call exceeds the recursion limit: RecursionError is raised inside the
\* try block, "except Exception" takes it and the directive line is kept
ResolveRecursionError ==
    /\ phase = "resolving" /\ AtLine
    /\ ThisLine # <<>>
    /\ LET resolved_path == ResolvedPath(TopFrame.current_file, ThisLine) IN
       /\ ~NameTooLong(resolved_path)
       /\ Exists(resolved_path)
       /\ Len(res.stack) = RecursionLimit
    /\ res' = [res EXCEPT !.stack = Appended(@, <<OutLine("include", ThisLine)>>)]
    /\ UNCHANGED <<arg, phase, lockvars, fixvars>>

\* resolved_path.exists() raises OSError outside the try block: the call
\* ends with the exception; the calling frame takes it in its except clause
\* and keeps its directive line, the outermost call raises
ResolveOSError ==
    /\ phase = "resolving" /\ AtLine
    /\ ThisLine # <<>>
    /\ NameTooLong(ResolvedPath(TopFrame.current_file, ThisLine))
    /\ IF Len(res.stack) = 1
       THEN /\ phase' = "raised"
            /\ res' = [res EXCEPT !.stack = <<>>]
       ELSE /\ phase' = phase
            /\ LET callers == ButLast(res.stack)
                   caller == LastOf(callers)
               IN res' = [res EXCEPT !.stack =
                     Appended(callers,
                              <<OutLine("include", FrameLines(caller)[caller.k])>>)]
    /\ UNCHANGED <<arg, lockvars, fixvars>>

\* an inner call returns: the caller appends the begin marker, the returned
\* content and the end marker
ResolveReturn ==
    /\ phase = "resolving" /\ ~AtLine
    /\ Len(res.stack) > 1
    /\ LET callers == ButLast(res.stack)
           caller == LastOf(callers)
           include_path == FrameLines(caller)[caller.k]
       IN res' = [res EXCEPT !.stack =
             Appended(callers, <<OutLine("begin", include_path)>>
                               \o TopFrame.new_lines
                               \o <<OutLine("end", include_path)>>)]
    /\ UNCHANGED <<arg, phase, lockvars, fixvars>>

\* the outermost call returns "\n".join(new_lines)
ResolveDone ==
    /\ phase = "resolving" /\ ~AtLine
    /\ Len(res.stack) = 1
    /\ res' = [stack |-> <<>>, returned |-> TopFrame.new_lines]
    /\ phase' = "done"
    /\ UNCHANGED <<arg, lockvars, fixvars>>

NextResolve ==
    \/ ResolveKeepLine \/ ResolveNotFound \/ ResolveCall \/ ResolveRecursionError
    \/ ResolveOSError \/ ResolveReturn \/ ResolveDone

SpecResolve == InitResolve /\ [][NextResolve]_vars

\* the files of the calls that are in progress
FilesOnStack == [n \in 1..Len(res.stack) |-> RealFile(res.stack[n].current_file)]
\* the markers of a result are nested: read from the left, every end marker
\* closes the begin marker that is open
RECURSIVE Nested(_, _)
Nested(out, open) ==
    IF out = <<>> THEN open = <<>>
    ELSE IF Head(out).t = "begin" THEN Nested(Tail(out), Append(open, Head(out).p))
    ELSE IF Head(out).t = "end"
         THEN open # <<>> /\ LastOf(open) = Head(out).p /\ Nested(Tail(out), ButLast(open))
    ELSE Nested(Tail(out), open)

\* C25: resolve_adoc_includes does not recurse without bound on a cyclic
\* include graph (no file is resolved inside its own resolution, so the
\* depth of the calls is at most the number of files), and in the result
\* the content of every inlined file stands between its begin and end
\* markers
C25_CycleBounded ==
    /\ \A i, j \in 1..Len(res.stack) : i # j => FilesOnStack[i] # FilesOnStack[j]
    /\ phase = "done" => Nested(res.returned, <<>>)
\* the part of C25 the code keeps: the markers of the result are nested
C25_MarkersNested ==
    phase = "done" => Nested(res.returned, <<>>)

(***************************************************************************)
(* Part 7.  DocsConverter.convert and RelNotesConverter.convert: which     *)
(* files are repaired before asciidoctor runs, and what asciidoctor reads  *)
(*                                                                         *)
(* The document is the entry file (input_path), a file included from       *)
(* inside base_dir and a file included from outside of it.  The content of *)
(* a file is the set of its defects: "table" is one that                   *)
(* preprocess_adoc_tables repairs, "callout" one that only the callout     *)
(* passes of fix_adoc_file repair.                                         *)
(***************************************************************************)
DocFiles == {"input_path", "included_inside", "included_outside"}
Defects == {"table", "callout"}
\* the files below base_dir (rglob("*.adoc") finds them)
InBaseDir == {"input_path", "included_inside"}

\* what fix_adoc_file leaves of the defects of a file: all passes are run
FixedContent(defects) == {}
\* what preprocess_adoc_tables leaves of them
TablesContent(defects) == defects \ {"table"}

InitRepair ==
    /\ arg \in [converter : {"DocsConverter", "RelNotesConverter"},
                attributes_file : BOOLEAN,
                included_files : SUBSET (DocFiles \ {"input_path"}),
                disk : [DocFiles -> SUBSET Defects]]
    /\ res = [disk |-> arg.disk, fix_calls |-> <<>>, fixes_by_file |-> {},
              preprocessed |-> {"none"}, converted |-> <<>>]
    /\ phase = IF arg.converter = "DocsConverter" THEN "included" ELSE "directory"
    /\ LockIdle
    /\ FixIdle

\* fix_adoc_file(f) on the files of the sequence fs, in their order: the
\* file is rewritten without its defects, and it enters fixes_by_file when
\* fixes were made
RECURSIVE FixAll(_, _)
FixAll(fs, st) ==
    IF fs = <<>> THEN st
    ELSE FixAll(Tail(fs),
            [st EXCEPT !.disk[Head(fs)] = FixedContent(@),
                       !.fix_calls = Append(@, Head(fs)),
                       !.fixes_by_file =
                           IF st.disk[Head(fs)] # {} THEN @ \cup {Head(fs)} ELSE @])

\* a set of files as a sequence, in some order
RECURSIVE InOrder(_)
InOrder(S) ==
    IF S = {} THEN <<>>
    ELSE LET f == CHOOSE x \in S : TRUE IN <<f>> \o InOrder(S \ {f})

\* RelNotesConverter: fix_adoc_files_in_directory(base_dir)
RepairDirectory ==
    /\ phase = "directory"
    /\ res' = FixAll(InOrder(InBaseDir), res)
    /\ phase' = "included"
    /\ UNCHANGED <<arg, lockvars, fixvars>>

\* find_included_files and fix_adoc_file on the included files;
\* RelNotesConverter skips those that are in fixes_by_file and records the
\* others there, DocsConverter keeps no record
RepairIncluded ==
    /\ phase = "included"
    /\ IF arg.converter = "DocsConverter"
       THEN /\ res' = [FixAll(InOrder(arg.included_files), res)
                          EXCEPT !.fixes_by_file = {}]
            /\ phase' = "preprocess"
       ELSE /\ res' = FixAll(InOrder(arg.included_files \ res.fixes_by_file), res)
            /\ phase' = "asciidoctor"
    /\ UNCHANGED <<arg, lockvars, fixvars>>

\* DocsConverter: the input is read, preprocess_adoc_tables is applied and
\* the result is written to the preprocessed copy
RepairPreprocess ==
    /\ phase = "preprocess"
    /\ res' = [res EXCEPT !.preprocessed = TablesContent(res.disk["input_path"])]
    /\ phase' = "asciidoctor"
    /\ UNCHANGED <<arg, lockvars, fixvars>>

\* asciidoctor is started on input_for_conversion: the wrapper, which
\* includes the preprocessed copy (DocsConverter) or input_path
\* (RelNotesConverter), or input_path itself when there is no attributes
\* file; the included files are read from the disk
RepairConvert ==
    /\ phase = "asciidoctor"
    /\ res' = [res EXCEPT !.converted =
          <<[f \in {"input_path"} \cup arg.included_files |->
                IF f = "input_path" /\ arg.converter = "DocsConverter" /\ arg.attributes_file
                THEN res.preprocessed ELSE res.disk[f]]>>]
    /\ phase' = "converted"
    /\ UNCHANGED <<arg, lockvars, fixvars>>

NextRepair == RepairDirectory \/ RepairIncluded \/ RepairPreprocess \/ RepairConvert

SpecRepair == InitRepair /\ [][NextRepair]_vars

\* the files fix_adoc_file was called on
FixCalled == Range(res.fix_calls)

\* C26: when asciidoctor is started, fix_adoc_file has been applied to the
\* entry file and to every included file, and the content asciidoctor reads
\* of each of them is the repaired content
C26_RepairedBeforeConversion ==
    phase = "converted" =>
        /\ {"input_path"} \cup arg.included_files \subseteq FixCalled
        /\ \A f \in DOMAIN res.converted[1] : res.converted[1][f] = {}
\* the parts of C26 the code keeps: the included files are repaired before
\* the conversion, and RelNotesConverter repairs the entry file too
C26_IncludedRepaired ==
    phase = "converted" =>
        /\ arg.included_files \subseteq FixCalled
        /\ \A f \in arg.included_files : res.converted[1][f] = {}
C26_RelNotesRepaired ==
    (phase = "converted" /\ arg.converter = "RelNotesConverter") =>
        /\ "input_path" \in FixCalled
        /\ res.converted[1]["input_path"] = {}

(***************************************************************************)
(* Part 8.  The batch run of __main__: the fix records of fix_adoc_file    *)
(* and the itemized list of the summary                                    *)
(*                                                                         *)
(* A fix list is named by the document whose conversion obtained it and    *)
(* the file it is for: <<doc, f>> is the list fix_adoc_file(f) returned    *)
(* while doc was converted.                                                *)
(***************************************************************************)
\* largest number of documents of each of the two loops
MaxDocs == 2
\* the source files the documents share
SourceFiles == {"f.adoc", "g.adoc"}

InitFixes ==
    /\ arg \in [docs : 0..MaxDocs, relnotes : 0..MaxDocs]
    /\ res = [i |-> 1, returned_fixes |-> {}, all_fixes |-> {}]
    /\ phase = "docs"
    /\ LockIdle
    /\ FixIdle

\* the fix lists of one convert call: fix_adoc_file returned a non-empty
\* list for the files of fixed
FixLists(doc, fixed) == {<<doc, f>> : f \in fixed}
\* "for file_path, fixes in fixes_by_file.items():
\*      if file_path not in all_fixes: all_fixes[file_path] = fixes"
Merged(all, fixes_by_file) ==
    all \cup {r \in fixes_by_file : \A q \in all : q[2] # r[2]}

\* docs_converter.convert(...) or {}: DocsConverter.convert returns None, or
\* it raises; fix_adoc_file has returned fix lists for the files of fixed
FixesDocsConvert ==
    /\ phase = "docs" /\ res.i <= arg.docs
    /\ \E fixed \in SUBSET SourceFiles, raises \in BOOLEAN :
          res' = [res EXCEPT !.i = @ + 1,
                             !.returned_fixes = @ \cup FixLists(<<"docs", res.i>>, fixed),
                             !.all_fixes = IF raises THEN @ ELSE Merged(@, {})]
    /\ UNCHANGED <<arg, phase, lockvars, fixvars>>

FixesDocsEnd ==
    /\ phase = "docs" /\ res.i > arg.docs
    /\ phase' = "relnotes"
    /\ res' = [res EXCEPT !.i = 1]
    /\ UNCHANGED <<arg, lockvars, fixvars>>

\* relnotes_converter.convert(...) returns fixes_by_file, or it raises
FixesRelnotesConvert ==
    /\ phase = "relnotes" /\ res.i <= arg.relnotes
    /\ \E fixed \in SUBSET SourceFiles, raises \in BOOLEAN :
          res' = [res EXCEPT !.i = @ + 1,
                             !.returned_fixes = @ \cup FixLists(<<"relnotes", res.i>>, fixed),
                             !.all_fixes =
                                 IF raises THEN @
                                 ELSE Merged(@, FixLists(<<"relnotes", res.i>>, fixed))]
    /\ UNCHANGED <<arg, phase, lockvars, fixvars>>

\* "SOURCE FILE FIXES APPLIED": the lists of all_fixes are printed
FixesSummary ==
    /\ phase = "relnotes" /\ res.i > arg.relnotes
    /\ phase' = "summary"
    /\ UNCHANGED <<arg, res, lockvars, fixvars>>

NextFixes == FixesDocsConvert \/ FixesDocsEnd \/ FixesRelnotesConvert \/ FixesSummary

SpecFixes == InitFixes /\ [][NextFixes]_vars

\* C27: every fix list fix_adoc_file returned during the run is printed in
\* the itemized list of the summary, under its file
C27_EveryFixListed ==
    phase = "summary" => res.returned_fixes \subseteq res.all_fixes
\* the part of C27 the code keeps: what is printed was returned by
\* fix_adoc_file for that file, at most one list per file, and the lists of
\* a release-notes conversion that returns are printed for the files that
\* had no list before
C27_ListedWereReturned ==
    /\ res.all_fixes \subseteq res.returned_fixes
    /\ \A r, q \in res.all_fixes : r[2] = q[2] => r = q
    /\ \A r \in res.all_fixes : r[1][1] = "relnotes"

(***************************************************************************)
(* SpecTwice: fix_adoc_file run on a file, and run again on the file it    *)
(* left (no read or write fails)                                           *)
(***************************************************************************)
\* longest file, in lines, the two runs start from
MaxTwiceLines == 4

\* ----   (empty)   x <1>   <1> d   |===   text   ifeval::[a]   endif::[]
TwiceLineSet ==
    {Delim, Blank, Code(<<1>>), Def(1), TDelim, Text, Ln("ifeval", <<>>, ""), Endif}
TwiceFiles == UNION {[1..n -> TwiceLineSet] : n \in 1..MaxTwiceLines}

\* all_fixes after the first k passes
RECURSIVE FixesPrefix(_, _, _)
FixesPrefix(order, buf, k) ==
    IF k = 0 THEN <<>>
    ELSE FixesPrefix(order, buf, k - 1)
         \o ApplyPass(order[k], RunPrefix(order, buf, k - 1)).fixes

\* one call of fix_adoc_file on a file with the content buf: the content it
\* leaves in the file and the list it returns
fix_adoc_file(buf) ==
    [buf |-> RunPrefix(PassOrder, buf, Len(PassOrder)),
     fixes |-> FixesPrefix(PassOrder, buf, Len(PassOrder))]

InitTwice ==
    /\ arg \in TwiceFiles
    /\ res = <<>>
    /\ phase = "input"
    /\ LockIdle
    /\ FixIdle

FixFirstRun ==
    /\ phase = "input"
    /\ res' = <<fix_adoc_file(arg)>>
    /\ phase' = "fixed"
    /\ UNCHANGED <<arg, lockvars, fixvars>>

FixSecondRun ==
    /\ phase = "fixed"
    /\ res' = Append(res, fix_adoc_file(res[1].buf))
    /\ phase' = "fixed_again"
    /\ UNCHANGED <<arg, lockvars, fixvars>>

NextTwice == FixFirstRun \/ FixSecondRun

SpecTwice == InitTwice /\ [][NextTwice]_vars

\* C29: a second run of fix_adoc_file on the file the first run left
\* changes nothing and returns an empty list
C29_SecondRunChangesNothing ==
    phase = "fixed_again" =>
        /\ res[2].buf = res[1].buf
        /\ res[2].fixes = <<>>

(***************************************************************************)
(* Part 9.  Worker processes that share a source file: fix_adoc_file under *)
(* FileLock (Part 1, with the write-back in its two steps), and the reads  *)
(* of find_included_files and of DocsConverter.convert                     *)
(***************************************************************************)
InitShare == InitLock

\* open(file_path, "w") of the write-back: the file is truncated
TruncateFile(p) ==
    /\ pc[p] = "write"
    /\ pc' = [pc EXCEPT ![p] = "writeback"]
    /\ UNCHANGED <<fd, path, locked, waited, result>>

\* f.write(content) and the close of the with statement: the content is in
\* the file; on an exception fix_adoc_file returns []
WriteBack(p) ==
    /\ pc[p] = "writeback"
    /\ pc' = [pc EXCEPT ![p] = "unlock"]
    /\ \E r \in {"ok", "writefail"} : result' = [result EXCEPT ![p] = r]
    /\ UNCHANGED <<fd, path, locked, waited>>

\* find_included_files: open(current_file, "r") on the shared file
ScanOpen(p) ==
    /\ pc[p] = "idle"
    /\ pc' = [pc EXCEPT ![p] = "scan"]
    /\ UNCHANGED <<fd, path, locked, waited, result>>

\* find_included_files: f.read() has returned and the file is closed
ScanRead(p) ==
    /\ pc[p] = "scan"
    /\ pc' = [pc EXCEPT ![p] = "idle"]
    /\ UNCHANGED <<fd, path, locked, waited, result>>

\* DocsConverter.convert: open(input_path, "r") on the shared file
InputOpen(p) ==
    /\ pc[p] = "idle"
    /\ pc' = [pc EXCEPT ![p] = "input"]
    /\ UNCHANGED <<fd, path, locked, waited, result>>

\* DocsConverter.convert: content = f.read()
InputRead(p) ==
    /\ pc[p] = "input"
    /\ pc' = [pc EXCEPT ![p] = "idle"]
    /\ UNCHANGED <<fd, path, locked, waited, result>>

NextShare ==
    \E p \in Procs :
      /\ UNCHANGED <<funvars, fixvars>>
      /\
        \/ Call(p)
        \/ OpenLockFile(p)
        \/ TryLock(p)
        \/ Sleep(p)
        \/ ReadFile(p)
        \/ RunPasses(p)
        \/ TruncateFile(p)
        \/ WriteBack(p)
        \/ Unlock(p)
        \/ CloseLockFile(p)
        \/ Unlink(p)
        \/ ScanOpen(p)
        \/ ScanRead(p)
        \/ InputOpen(p)
        \/ InputRead(p)

SpecShare == InitShare /\ [][NextShare]_vars

\* positions at which a worker has the shared file open for reading
Reading == {"read", "scan", "input"}

\* C30: the reads of the shared file are made under its FileLock, so that
\* no worker has the file open for reading while another worker is between
\* truncating it and completing the write-back
C30_NoReadDuringWriteBack ==
    \A p, q \in Procs :
        (p # q) => ~(pc[p] \in Reading /\ pc[q] = "writeback")
\* the part of C30 the code keeps: the read and the write-back of
\* fix_adoc_file are made by a worker that holds the flock of the lock file
\* it opened
C30_FixUnderLock ==
    \A p \in Procs :
        pc[p] \in {"read", "passes", "write", "writeback"} =>
            (fd[p] # 0 /\ locked[fd[p]] = p)

====
